---------------------------- MODULE Spec2Model ----------------------------
(***************************************************************************)
(* Lineup generation of AYSO Roster Pro (src/public/app.js): the sitting   *)
(* scheduler, the per-quarter position assigner with its keeper selector,  *)
(* the lineup validator and the bounded search loop that drives them.      *)
(*                                                                         *)
(* Players are named by their index in this.players.  Every Math.random    *)
(* draw of the code is a nondeterministic choice of the model: a shuffle   *)
(* is revealed one element at a time, the score jitter is the set of       *)
(* players it can make win.                                                *)
(***************************************************************************)
EXTENDS Integers, Sequences, FiniteSets, TLC

VARIABLES
    players,              \* this.players: static flags and per-game accumulators
    playersOnField,       \* this.playersOnField
    positions,            \* this.positions
    seasonStats,          \* this.seasonStatsCache, read-only during a generation
    lineup,               \* this.lineup: one QuarterLineup per generated quarter
    pc,                   \* where generateLineup stands
    attempts,             \* generateLineup: attempts
    validation,           \* generateLineup: validation
    bestLineup,           \* generateLineup: bestLineup (<<>> stands for null)
    bestValidationCount,  \* generateLineup: bestValidationCount
    maxAttempts,          \* generateLineup: maxAttempts
    schedule,             \* determineSittingSchedule: schedule
    sittingQuarters,      \* determineSittingSchedule: playersCopy[..].sittingQuarters
    passI,                \* determineSittingSchedule: i of the second pass
    visited,              \* players the running pass has already iterated over
    order,                \* allPlayersCombined as far as the shuffle is revealed
    playersAssigned,      \* determineSittingSchedule: playersAssigned
    history,              \* history variable: each finished attempt's lineup and
                          \* number of issues, in order
    captains,             \* this.captains
    ageDivision,          \* this.ageDivision
    formation,            \* this.formation, also the value of the formation select
    seasonGames,          \* this.savedGames: the players and captains of each saved game
    syncQueue,            \* localStorage 'ayso_sync_queue': the rosters waiting to be sent
    cloudPlayers,         \* the rows of the players table at the server, by name
    localPlayers,         \* localStorage 'ayso_players'
    localGames,           \* localStorage 'ayso_lineup_history'
    cloudGames,           \* the rows of the games table at the server
    push,                 \* the pushPlayers or pushGame call under way, and its result
    queueRun,             \* the processQueue call under way
    queued,               \* every change queueChange has appended
    uploaded,             \* every queued change a processQueue run has uploaded
    pushCalls,            \* how many pushPlayers and pushGame calls were made
    undoStack,            \* this.undoStack
    redoStack,            \* this.redoStack
    workerPc,             \* where the lineup worker stands in its message handler
    workerAttempts,       \* attempts of the worker's generateLineup
    workerMaxAttempts,    \* data.maxAttempts of the message the worker handles
    workerRequests,       \* how many 'generate' messages the worker has taken
    posted,               \* the messages the worker has posted for the current one
    shuffle,              \* the shuffleWithinSimilarGroups call: its array and indices
    shuffleInput          \* the array as that call received it

vars == <<players, playersOnField, positions, seasonStats, maxAttempts, lineup, pc, attempts,
          validation, bestLineup, bestValidationCount, schedule, sittingQuarters,
          passI, visited, order, playersAssigned, history, captains, ageDivision,
          formation, seasonGames, syncQueue, cloudPlayers, localPlayers, localGames,
          cloudGames, push, queueRun, queued, uploaded, pushCalls, undoStack, redoStack,
          workerPc,
          workerAttempts, workerMaxAttempts, workerRequests, posted, shuffle,
          shuffleInput>>

schedVars == <<schedule, sittingQuarters, passI, visited, order, playersAssigned>>

searchVars == <<attempts, validation, bestLineup, bestValidationCount, history>>

syncVars == <<syncQueue, cloudPlayers, localPlayers, localGames, cloudGames, push, queueRun,
              queued, uploaded, pushCalls>>

workerVars == <<workerPc, workerAttempts, workerMaxAttempts, workerRequests, posted>>

\* the state outside the application object
shuffleVars == <<shuffle, shuffleInput>>

moduleVars == <<workerVars, shuffleVars>>

settingsVars == <<playersOnField, positions, seasonStats, maxAttempts, ageDivision,
                  formation, seasonGames, syncVars, moduleVars>>

configVars == <<settingsVars, undoStack, redoStack>>

MaxUndoStack == 2

\* faulty alternative: the oldest copy is never dropped
saveStateForUndoKeepingAll ==
    Append(undoStack, [players |-> players, captains |-> captains, lineup |-> lineup])

\* saveStateForUndo: the stack with a copy of the players, the captains and the
\* lineup on top, the oldest copy dropped when it is over its size
saveStateForUndo ==
    LET pushed == Append(undoStack, [players |-> players, captains |-> captains,
                                     lineup |-> lineup])
    IN IF Len(pushed) > MaxUndoStack THEN Tail(pushed) ELSE pushed

---------------------------------------------------------------------------
(* Bounds of the model *)

\* the roster holds at most MaxBench players more than the field takes
MaxBench == 3
\* at most MaxMustRest players have mustRest set
MaxMustRest == 2
\* at most MaxVeterans players have a season history
MaxVeterans == 1
\* at most MaxNoKeeper players have noKeeper set
MaxNoKeeper == 4
\* the attempt budget the search runs with (the application's is 500)
MaxAttempts == 2

(* Program constants *)

DEFAULT_QUARTERS == 4
JITTER == 5
Infinity == 1000000

---------------------------------------------------------------------------
(* Helpers *)

Range(s) == {s[i] : i \in 1..Len(s)}

Abs(x) == IF x < 0 THEN -x ELSE x

MinOf(S) == CHOOSE x \in S : \A y \in S : x <= y

PlayerIds == 1..Len(players)

quarters == DEFAULT_QUARTERS

QuarterIds == 1..quarters

---------------------------------------------------------------------------
(* Roster model *)

\* JavaScript null where a jersey number is expected
Null == -1

NewPlayer(i, rest, nokeeper, st) ==
    [name |-> i, number |-> Null, mustRest |-> rest, noKeeper |-> nokeeper, status |-> st,
     quartersPlayed |-> <<>>, quartersSitting |-> <<>>, positionsPlayed |-> <<>>,
     goalieQuarter |-> 0, defensiveQuarters |-> 0, offensiveQuarters |-> 0,
     isCaptain |-> FALSE]

\* faulty alternative: the role counters survive the reset
ResetPlayerKeepingRoles(p) ==
    [p EXCEPT !.quartersPlayed = <<>>, !.quartersSitting = <<>>,
              !.positionsPlayed = <<>>, !.goalieQuarter = 0]

\* generateLineup, "Reset player stats"
ResetPlayer(p) ==
    [p EXCEPT !.quartersPlayed = <<>>, !.quartersSitting = <<>>,
              !.positionsPlayed = <<>>, !.goalieQuarter = 0,
              !.defensiveQuarters = 0, !.offensiveQuarters = 0]

IsAvailable(p) == p.status = "available" \/ p.status = ""

availablePlayers == {i \in PlayerIds : IsAvailable(players[i])}

\* createEmptyStats of getPlayerStats: a player no saved game mentions
EmptyStats == [gamesPlayed |-> 0, totalSitting |-> 0, goalkeeperQuarters |-> 0,
               captainGames |-> 0, positions |-> [x \in {"Keeper", "Striker"} |-> 0]]

\* a player one saved game mentions: sat two quarters, kept goal in one and was
\* striker in the other, was captain
VeteranStats == [gamesPlayed |-> 1, totalSitting |-> 2, goalkeeperQuarters |-> 1,
                 captainGames |-> 1, positions |-> [x \in {"Keeper", "Striker"} |-> 1]]

---------------------------------------------------------------------------
(* Formations *)

getPositionsForFormation(fieldSize) ==
    IF fieldSize = 5
    THEN <<"Keeper", "Left Back", "Right Back", "Midfield", "Striker">>
    ELSE IF fieldSize = 6
    THEN <<"Keeper", "Left Back", "Right Back", "Left Mid", "Right Mid", "Striker">>
    ELSE <<"Keeper", "Left Back", "Right Back", "Left Wing", "Right Wing",
           "Center Mid", "Striker">>

---------------------------------------------------------------------------
(* SittingScheduler *)

maxSitting == Len(players) - playersOnField

sittingPerQuarter == Len(players) - playersOnField

totalSittingSlots == sittingPerQuarter * quarters

minSitsPerPlayer == totalSittingSlots \div Len(players)

playersWithExtraSit == totalSittingSlots % Len(players)

isConsecutive(currentSittingQuarters, q) ==
    \E i \in 1..Len(currentSittingQuarters) : Abs(currentSittingQuarters[i] - q) = 1

quartersToTry == <<1, 3, 2, 4>>

QuarterFree(currentSittingQuarters, sched, q) ==
    /\ Cardinality(sched[q]) < maxSitting
    /\ q \notin Range(currentSittingQuarters)

\* faulty alternative: the adjacency test is forgotten
findQuarterIgnoringAdjacency(currentSittingQuarters, sched) ==
    LET ok == {i \in 1..4 : QuarterFree(currentSittingQuarters, sched, quartersToTry[i])}
    IN IF ok # {} THEN quartersToTry[MinOf(ok)] ELSE -1

\* faulty alternative: the "quarter is full" test is forgotten
findQuarterIgnoringFull(currentSittingQuarters, sched) ==
    LET ok == {i \in 1..4 :
                  /\ quartersToTry[i] \notin Range(currentSittingQuarters)
                  /\ ~isConsecutive(currentSittingQuarters, quartersToTry[i])}
    IN IF ok # {} THEN quartersToTry[MinOf(ok)] ELSE -1

findNonConsecutiveSittingQuarter(currentSittingQuarters, sched) ==
    LET okTry  == {i \in 1..4 :
                      /\ QuarterFree(currentSittingQuarters, sched, quartersToTry[i])
                      /\ ~isConsecutive(currentSittingQuarters, quartersToTry[i])}
        okScan == {q \in 1..4 :
                      /\ QuarterFree(currentSittingQuarters, sched, q)
                      /\ ~isConsecutive(currentSittingQuarters, q)}
    IN IF okTry # {} THEN quartersToTry[MinOf(okTry)]
       ELSE IF okScan # {} THEN MinOf(okScan)
       ELSE -1

\* what each of the three passes does with one player
assignSit(p, sq, sched) ==
    LET assignedQuarter == findNonConsecutiveSittingQuarter(sq[p], sched)
    IN IF assignedQuarter # -1
       THEN [sq    |-> [sq EXCEPT ![p] = Append(@, assignedQuarter)],
             sched |-> [sched EXCEPT ![assignedQuarter] = @ \cup {p}],
             ok    |-> TRUE]
       ELSE [sq |-> sq, sched |-> sched, ok |-> FALSE]

mustRestPlayers == {i \in PlayerIds : players[i].mustRest}

regularPlayers == {i \in PlayerIds : ~players[i].mustRest}

\* first pass: the mustRest players, in roster order
RECURSIVE mustRestPass(_, _, _)
mustRestPass(i, sq, sched) ==
    IF i > Len(players) THEN [sq |-> sq, sched |-> sched]
    ELSE IF players[i].mustRest
         THEN LET r == assignSit(i, sq, sched) IN mustRestPass(i + 1, r.sq, r.sched)
         ELSE mustRestPass(i + 1, sq, sched)

\* average sitting per game, as the pair the comparator compares
avgSitNum(i) == IF seasonStats[i].gamesPlayed > 0 THEN seasonStats[i].totalSitting ELSE 0

avgSitDen(i) == IF seasonStats[i].gamesPlayed > 0 THEN seasonStats[i].gamesPlayed ELSE 1

\* Math.round(avg * 2) / 2, counted in halves
sitGroup(i) == (4 * avgSitNum(i) + avgSitDen(i)) \div (2 * avgSitDen(i))

\* the elements a sort by average followed by shuffleWithinSimilarGroups can put
\* next, when those of `done` are already placed
nextInShuffledGroups(S, done) ==
    {i \in S \ done : \A j \in S \ done : sitGroup(i) <= sitGroup(j)}

\* the player the second pass can iterate over next
nextInSecondPass ==
    IF passI > 0 THEN {order[Cardinality(visited) + 1]}
    ELSE IF mustRestPlayers \ visited # {} THEN {MinOf(mustRestPlayers \ visited)}
    ELSE nextInShuffledGroups(regularPlayers, visited)

\* faulty alternative: neededSits is minSitsPerPlayer, not one more
canSitExtraBelowMin(p, sq, sched) ==
    /\ Len(sq[p]) < minSitsPerPlayer
    /\ findNonConsecutiveSittingQuarter(sq[p], sched) # -1

\* third pass: whether the loop body assigns player p a quarter
canSitExtra(p, sq, sched) ==
    /\ Len(sq[p]) < minSitsPerPlayer + 1
    /\ findNonConsecutiveSittingQuarter(sq[p], sched) # -1

\* third pass: the players of playersForExtraSit not yet iterated over that the
\* loop body would still assign.  A player it would skip or fail on now is
\* skipped or failed on whenever the loop reaches it (the schedule only fills),
\* so where such a player stands in the shuffled order changes nothing.
extraCandidates(sq, sched, vis) == {p \in PlayerIds \ vis : canSitExtra(p, sq, sched)}

\* the loop of determineSittingSchedule that runs next
nextSitPc(i, sq, sched, vis, assigned) ==
    IF i < minSitsPerPlayer THEN "sitMin"
    ELSE IF assigned < playersWithExtraSit /\ extraCandidates(sq, sched, vis) # {}
         THEN "sitExtra"
    ELSE "quarters"

---------------------------------------------------------------------------
(* determineSittingSchedule, one loop iteration per step *)

emptySchedule == [q \in QuarterIds |-> {}]

\* where determineSittingSchedule goes on, with its locals; they are dropped
\* when it returns
continueSchedule(next, sq, i, vis, ord, assigned) ==
    /\ pc' = next
    /\ sittingQuarters' = IF next = "quarters" THEN <<>> ELSE sq
    /\ passI' = IF next = "quarters" THEN 0 ELSE i
    /\ visited' = IF next = "quarters" THEN {} ELSE vis
    /\ order' = IF next = "quarters" THEN <<>> ELSE ord
    /\ playersAssigned' = IF next = "quarters" THEN 0 ELSE assigned

\* generateLineup: the attempt counter, the reset of the accumulators, and
\* determineSittingSchedule up to the end of its first pass
BeginAttempt ==
    /\ pc = "attempt"
    /\ attempts' = attempts + 1
    /\ players' = [i \in PlayerIds |-> ResetPlayer(players[i])]
    /\ lineup' = <<>>
    /\ LET r == mustRestPass(1, [i \in PlayerIds |-> <<>>], emptySchedule)
       IN /\ schedule' = r.sched
          /\ continueSchedule(nextSitPc(0, r.sq, r.sched, {}, 0), r.sq, 0, {}, <<>>, 0)
    /\ UNCHANGED <<configVars, validation, bestLineup, bestValidationCount, history, captains>>

\* second pass: one player of allPlayersCombined.forEach, for the current i
SitMin ==
    /\ pc = "sitMin"
    /\ \E p \in nextInSecondPass :
          LET r    == IF Len(sittingQuarters[p]) > passI
                      THEN [sq |-> sittingQuarters, sched |-> schedule, ok |-> FALSE]
                      ELSE assignSit(p, sittingQuarters, schedule)
              vis  == visited \cup {p}
              last == vis = PlayerIds
              ord  == IF passI = 0 /\ minSitsPerPlayer > 1 THEN Append(order, p) ELSE order
          IN /\ schedule' = r.sched
             /\ IF last
                THEN continueSchedule(nextSitPc(passI + 1, r.sq, r.sched, {}, 0),
                                      r.sq, passI + 1, {}, ord, 0)
                ELSE continueSchedule("sitMin", r.sq, passI, vis, ord, 0)
    /\ UNCHANGED <<players, configVars, lineup, searchVars, captains>>

\* third pass: the iterations of the loop over playersForExtraSit up to and
\* including the next one that assigns a quarter
SitExtra ==
    /\ pc = "sitExtra"
    /\ \E p \in nextInShuffledGroups(extraCandidates(sittingQuarters, schedule, visited), {}) :
          LET r   == assignSit(p, sittingQuarters, schedule)
              vis == visited \cup {p}
          IN /\ schedule' = r.sched
             /\ continueSchedule(
                    nextSitPc(minSitsPerPlayer, r.sq, r.sched, vis, playersAssigned + 1),
                    r.sq, passI, vis, order, playersAssigned + 1)
    /\ UNCHANGED <<players, configVars, lineup, searchVars, captains>>

---------------------------------------------------------------------------
(* PositionAssigner and KeeperSelector *)

\* the position names of the formations for which p.includes('Back') holds
BackPositions == {"Left Back", "Right Back", "Center Back", "Left Center Back",
                  "Right Center Back", "Left Wing Back", "Right Wing Back"}

isDefensivePosition(position) == position \in BackPositions \/ position = "Keeper"

defensivePositions == {pos \in Range(positions) : isDefensivePosition(pos)}

\* the players selectKeeper can return ({} when it returns undefined)
\* faulty alternative: the season's goalkeeper quarters are not read
selectKeeperIgnoringSeason(playingPlayers) ==
    LET allowedKeepers   == {p \in playingPlayers : ~players[p].noKeeper}
        poolToSelectFrom == IF allowedKeepers # {} THEN allowedKeepers ELSE playingPlayers
        potentialKeepers == {p \in poolToSelectFrom : players[p].goalieQuarter = 0}
    IN IF potentialKeepers # {} THEN potentialKeepers
       ELSE IF poolToSelectFrom # {} THEN {MinOf(poolToSelectFrom)}
       ELSE {}

selectKeeper(playingPlayers) ==
    LET allowedKeepers    == {p \in playingPlayers : ~players[p].noKeeper}
        poolToSelectFrom  == IF allowedKeepers # {} THEN allowedKeepers ELSE playingPlayers
        potentialKeepers  == {p \in poolToSelectFrom : players[p].goalieQuarter = 0}
        gk(p)             == seasonStats[p].goalkeeperQuarters
        lowestGKGroup     == {p \in potentialKeepers :
                                 \A q \in potentialKeepers : gk(p) <= gk(q)}
    IN IF potentialKeepers # {} THEN lowestGKGroup
       ELSE IF poolToSelectFrom # {} THEN {MinOf(poolToSelectFrom)}
       ELSE {}

timesPlayedPosition(p, position) ==
    Cardinality({i \in 1..Len(players[p].positionsPlayed) :
                    players[p].positionsPlayed[i].position = position})

seasonPositionCount(p, position) ==
    IF position \in DOMAIN seasonStats[p].positions
    THEN seasonStats[p].positions[position] ELSE 0

RECURSIVE SumOver(_, _)
SumOver(f, S) ==
    IF S = {} THEN 0
    ELSE LET x == CHOOSE y \in S : TRUE IN f[x] + SumOver(f, S \ {x})

totalPositionsPlayed(p) == SumOver(seasonStats[p].positions, DOMAIN seasonStats[p].positions)

\* the score of assignPositionsOptimally without its random term
\* faulty alternative: a repeated position costs 100 a time
scoreLightPenalty(p, position) ==
    LET defensive  == players[p].defensiveQuarters
        offensive  == players[p].offensiveQuarters
        isDefensive == position \in defensivePositions
        repeated   == -100 * timesPlayedPosition(p, position)
        currentImbalance == Abs(defensive - offensive)
        projectedImbalance == IF isDefensive THEN Abs((defensive + 1) - offensive)
                              ELSE Abs(defensive - (offensive + 1))
        balance    == IF isDefensive THEN (offensive - defensive) * 100
                      ELSE (defensive - offensive) * 100
        worse      == IF projectedImbalance > currentImbalance
                      THEN -200 * (projectedImbalance - currentImbalance) ELSE 0
        total      == totalPositionsPlayed(p)
        variety    == IF total > 0
                      THEN ((total - seasonPositionCount(p, position)) * 200) \div total
                      ELSE 100
    IN repeated + balance + worse + variety

\* the terms of the score, in the order the code adds them
repeatTerm(p, position) == -1000 * timesPlayedPosition(p, position)

balanceTerm(p, position) ==
    LET defensive  == players[p].defensiveQuarters
        offensive  == players[p].offensiveQuarters
        isDefensive == position \in defensivePositions
        currentImbalance == Abs(defensive - offensive)
        projectedImbalance == IF isDefensive THEN Abs((defensive + 1) - offensive)
                              ELSE Abs(defensive - (offensive + 1))
        balance    == IF isDefensive THEN (offensive - defensive) * 100
                      ELSE (defensive - offensive) * 100
        worse      == IF projectedImbalance > currentImbalance
                      THEN -200 * (projectedImbalance - currentImbalance) ELSE 0
    IN balance + worse

varietyTerm(p, position) ==
    LET total == totalPositionsPlayed(p)
    IN IF total > 0
       THEN ((total - seasonPositionCount(p, position)) * 200) \div total
       ELSE 100

score(p, position) ==
    repeatTerm(p, position) + balanceTerm(p, position) + varietyTerm(p, position)

\* the players scoredPlayers[0] can be: Math.random() * 5 lies in [0, 5), so a
\* player can come first exactly when nobody's score is 5 or more above theirs
topScored(remainingPlayers, position) ==
    {p \in remainingPlayers :
        \A q \in remainingPlayers : score(q, position) - score(p, position) < JITTER}

\* faulty alternative: the chosen player is not removed from remainingPlayers
RECURSIVE assignWithoutRemoval(_, _)
assignWithoutRemoval(remainingPlayers, remainingPositions) ==
    IF remainingPositions = {} \/ remainingPlayers = {} THEN {<<>>}
    ELSE UNION {UNION {{(pos :> p) @@ a :
                          a \in assignWithoutRemoval(remainingPlayers,
                                                    remainingPositions \ {pos})} :
                       p \in topScored(remainingPlayers, pos)} :
                pos \in remainingPositions}

\* the assignments assignPositionsOptimally can return, each a function from
\* the positions it filled to the players; the shuffle makes any remaining
\* position the next one.  Its closing while loop finds one of the two lists
\* empty and does nothing.
RECURSIVE assignPositionsOptimally(_, _)
assignPositionsOptimally(remainingPlayers, remainingPositions) ==
    IF remainingPositions = {} \/ remainingPlayers = {} THEN {<<>>}
    ELSE UNION {UNION {{(pos :> p) @@ a :
                          a \in assignPositionsOptimally(remainingPlayers \ {p},
                                                        remainingPositions \ {pos})} :
                       p \in topScored(remainingPlayers, pos)} :
                pos \in remainingPositions}

\* faulty alternative: the keeper's quarter is counted as an offensive one
playedQuarterBacksOnly(pl, quarter, position) ==
    [pl EXCEPT !.quartersPlayed = Append(@, quarter),
               !.positionsPlayed = Append(@, [quarter |-> quarter, position |-> position]),
               !.goalieQuarter = IF position = "Keeper" THEN quarter ELSE @,
               !.defensiveQuarters = IF position \in BackPositions THEN @ + 1 ELSE @,
               !.offensiveQuarters = IF position \in BackPositions THEN @ ELSE @ + 1]

\* the accumulators of player i after generateQuarterLineup(quarter)
playedQuarter(pl, quarter, position) ==
    [pl EXCEPT !.quartersPlayed = Append(@, quarter),
               !.positionsPlayed = Append(@, [quarter |-> quarter, position |-> position]),
               !.goalieQuarter = IF position = "Keeper" THEN quarter ELSE @,
               !.defensiveQuarters = IF position \in defensivePositions THEN @ + 1 ELSE @,
               !.offensiveQuarters = IF position \in defensivePositions THEN @ ELSE @ + 1]

satQuarter(pl, quarter) == [pl EXCEPT !.quartersSitting = Append(@, quarter)]

positionOf(quarterPositions, i) ==
    CHOOSE pos \in DOMAIN quarterPositions : quarterPositions[pos] = i

generateQuarterLineup ==
    /\ pc = "quarters"
    /\ LET quarter        == Len(lineup) + 1
           sittingPlayers == schedule[quarter]
           playingPlayers == PlayerIds \ sittingPlayers
           keepers        == IF "Keeper" \in Range(positions)
                             THEN selectKeeper(playingPlayers) ELSE {}
       IN \E keeper \in (IF keepers = {} THEN {0} ELSE keepers) :
          \E a \in assignPositionsOptimally(
                      playingPlayers \ {keeper},
                      Range(positions) \ (IF keeper # 0 THEN {"Keeper"} ELSE {})) :
             LET filled == IF keeper # 0 THEN ("Keeper" :> keeper) @@ a ELSE a
                 assigned == {filled[pos] : pos \in DOMAIN filled}
             IN /\ players' =
                     [i \in PlayerIds |->
                        LET pl == IF i \in assigned
                                  THEN playedQuarter(players[i], quarter, positionOf(filled, i))
                                  ELSE players[i]
                        IN IF i \in sittingPlayers THEN satQuarter(pl, quarter) ELSE pl]
                /\ lineup' = Append(lineup, [quarter |-> quarter, positions |-> filled])
                /\ pc' = IF quarter = quarters THEN "validate" ELSE "quarters"
    /\ UNCHANGED <<configVars, searchVars, schedVars, captains>>

---------------------------------------------------------------------------
(* LineupValidator *)

Issue(pl, rule, position, detail) ==
    [player |-> pl.name, rule |-> rule, position |-> position, detail |-> detail]

Indices(n) == [i \in 1..n |-> i]

keeperCount(pl) ==
    Cardinality({i \in 1..Len(pl.positionsPlayed) : pl.positionsPlayed[i].position = "Keeper"})

positionCount(pl, pos) ==
    Cardinality({i \in 1..Len(pl.positionsPlayed) : pl.positionsPlayed[i].position = pos})

goalieIssues(pl) ==
    IF keeperCount(pl) > 1 THEN <<Issue(pl, "goalie", "", <<keeperCount(pl)>>)>> ELSE <<>>

\* faulty alternative: the consecutive-sitting rule is not there
consecutiveIssuesMissing(pl) == <<>>

consecutiveIssues(pl) ==
    LET qs   == pl.quartersSitting
        hits == SelectSeq(Indices(Len(qs)),
                          LAMBDA i : i < Len(qs) /\ qs[i + 1] = qs[i] + 1)
    IN [k \in 1..Len(hits) |-> Issue(pl, "consecutive", "", <<qs[hits[k]], qs[hits[k] + 1]>>)]

sittingIssues(pl) ==
    IF Len(pl.quartersSitting) > 2
    THEN <<Issue(pl, "sitting", "", <<Len(pl.quartersSitting)>>)>> ELSE <<>>

balanceIssues(pl) ==
    LET d == pl.defensiveQuarters
        o == pl.offensiveQuarters
    IN IF Len(pl.quartersPlayed) > 0
       THEN (IF d = 0 THEN <<Issue(pl, "noDefense", "", <<>>)>> ELSE <<>>)
            \o (IF o = 0 THEN <<Issue(pl, "noOffense", "", <<>>)>> ELSE <<>>)
            \o (IF Abs(d - o) > 1 THEN <<Issue(pl, "imbalance", "", <<Abs(d - o), d, o>>)>>
                ELSE <<>>)
       ELSE <<>>

\* Object.entries(positionCounts) lists the positions in the order they were
\* first played
duplicateIssues(pl) ==
    LET pp   == pl.positionsPlayed
        hits == SelectSeq(Indices(Len(pp)),
                          LAMBDA i : /\ \A j \in 1..(i - 1) : pp[j].position # pp[i].position
                                     /\ positionCount(pl, pp[i].position) > 1)
    IN [k \in 1..Len(hits) |->
           Issue(pl, "duplicate", pp[hits[k]].position,
                 <<positionCount(pl, pp[hits[k]].position)>>)]

\* faulty alternative: the role-balance rules are not checked
playerIssuesWithoutBalance(pl) ==
    goalieIssues(pl) \o consecutiveIssues(pl) \o sittingIssues(pl) \o duplicateIssues(pl)

playerIssues(pl) ==
    goalieIssues(pl) \o consecutiveIssues(pl) \o sittingIssues(pl)
        \o balanceIssues(pl) \o duplicateIssues(pl)

RECURSIVE issuesFrom(_, _)
issuesFrom(ps, i) ==
    IF i > Len(ps) THEN <<>> ELSE playerIssues(ps[i]) \o issuesFrom(ps, i + 1)

validateLineup(ps) == issuesFrom(ps, 1)

---------------------------------------------------------------------------
(* SearchController *)

\* faulty alternative: a later attempt that ties the best replaces it
isNewBestOrTie(count, best) == count <= best

\* generateLineup: validation.length < bestValidationCount
isNewBest(count, best) == count < best

\* faulty alternative: the loop has no attempt ceiling
loopAgainUnbounded(issues, n) == Len(issues) > 0 /\ n < maxAttempts + 1

\* generateLineup: while (validation.length > 0 && attempts < maxAttempts)
loopAgain(issues, n) == Len(issues) > 0 /\ n < maxAttempts

\* generateLineup: the end of the loop body and the loop test
EndAttempt ==
    /\ pc = "validate"
    /\ LET v == validateLineup(players)
       IN /\ validation' = v
          /\ IF isNewBest(Len(v), bestValidationCount)
             THEN /\ bestValidationCount' = Len(v)
                  /\ bestLineup' = lineup
             ELSE UNCHANGED <<bestValidationCount, bestLineup>>
          /\ history' = Append(history, [lineup |-> lineup, count |-> Len(v)])
          /\ pc' = IF loopAgain(v, attempts) THEN "attempt" ELSE "finish"
    /\ UNCHANGED <<players, configVars, lineup, attempts, schedVars, captains>>

\* generateLineup: this.lineup = bestLineup
restoreBest(best, last) == best

captainGames(p) == seasonStats[p].captainGames

\* generateLineup, captain rotation: the lists this.captains can end as
captainChoices ==
    LET lowestCaptainGroup ==
            {p \in availablePlayers : \A q \in availablePlayers : captainGames(p) <= captainGames(q)}
        \* the first Math.min(2, length) of the shuffled lowest group
        fromLowest ==
            IF Cardinality(lowestCaptainGroup) >= 2
            THEN {<<a, b>> : a, b \in lowestCaptainGroup} \ {<<a, a>> : a \in lowestCaptainGroup}
            ELSE IF lowestCaptainGroup # {} THEN {<<a>> : a \in lowestCaptainGroup}
            ELSE {<<>>}
        \* the first of the shuffled remaining = sortedPlayers without the captains
        withRemaining(c) ==
            IF Len(c) < 2 /\ Cardinality(availablePlayers) > Cardinality(lowestCaptainGroup)
            THEN {Append(c, r) : r \in availablePlayers \ Range(c)}
            ELSE {c}
    IN IF Len(players) >= 2 THEN UNION {withRemaining(c) : c \in fromLowest} ELSE {<<>>}

\* generateLineup after the loop: the best lineup on exhaustion, the captains
FinishGeneration ==
    /\ pc = "finish"
    /\ IF attempts >= maxAttempts /\ Len(validation) > 0
       THEN /\ lineup' = IF bestLineup # <<>> THEN restoreBest(bestLineup, lineup) ELSE lineup
            /\ validation' = validateLineup(players)
       ELSE UNCHANGED <<lineup, validation>>
    /\ \E c \in captainChoices :
          /\ captains' = c
          /\ players' = [i \in PlayerIds |-> [players[i] EXCEPT !.isCaptain = (i \in Range(c))]]
    /\ pc' = "done"
    /\ UNCHANGED <<configVars, attempts, bestLineup, bestValidationCount, history, schedVars>>

---------------------------------------------------------------------------
(* Rosters the specifications start from *)

FlagSets(n, k) == {S \in SUBSET (1..n) : Cardinality(S) <= k}

MakeRoster(n, rest, nokeeper, out, st) ==
    [i \in 1..n |-> NewPlayer(i, i \in rest, i \in nokeeper,
                              IF i \in out THEN st ELSE "available")]

MakeSeason(n, vets) == [i \in 1..n |-> IF i \in vets THEN VeteranStats ELSE EmptyStats]

\* the constructor, but for the roster, the captains and the undo stack
InitApp ==
    /\ ageDivision = "10U"
    /\ seasonGames = <<>>
    /\ syncQueue = <<>>
    /\ cloudPlayers = <<>>
    /\ localPlayers = <<>>
    /\ localGames = <<>>
    /\ cloudGames = {}
    /\ push = [pc |-> "idle", entityType |-> "", data |-> <<>>, before |-> <<>>,
               result |-> "none"]
    /\ queueRun = [pc |-> "idle", items |-> <<>>, remaining |-> <<>>]
    /\ queued = {}
    /\ uploaded = {}
    /\ pushCalls = 0
    /\ formation = "2-3-1"
    /\ lineup = <<>>
    /\ pc = "idle"
    /\ attempts = 0
    /\ validation = <<>>
    /\ bestLineup = <<>>
    /\ bestValidationCount = Infinity
    /\ schedule = emptySchedule
    /\ sittingQuarters = <<>>
    /\ passI = 0
    /\ visited = {}
    /\ order = <<>>
    /\ playersAssigned = 0
    /\ history = <<>>
    /\ workerPc = "idle"
    /\ workerAttempts = 0
    /\ workerMaxAttempts = 1
    /\ workerRequests = 0
    /\ posted = <<>>
    /\ shuffle = [pc |-> "idle", array |-> <<>>, i |-> 0, j |-> 0, k |-> 0]
    /\ shuffleInput = <<>>

InitControl ==
    /\ InitApp
    /\ undoStack = <<>>
    /\ redoStack = <<>>
    /\ captains = <<>>

\* faulty alternative: the precondition counts the whole roster
StartGenerationCountingAll ==
    /\ pc = "idle"
    /\ pc' = IF Len(players) < playersOnField THEN "rejected" ELSE "attempt"
    /\ attempts' = 0
    /\ validation' = <<>>
    /\ bestLineup' = <<>>
    /\ bestValidationCount' = Infinity
    /\ history' = <<>>
    /\ UNCHANGED <<players, configVars, lineup, schedVars, captains>>

\* generateLineup up to the loop: the available-player precondition
StartGeneration ==
    /\ pc = "idle"
    /\ pc' = IF Cardinality(availablePlayers) < playersOnField THEN "rejected" ELSE "attempt"
    /\ attempts' = 0
    /\ validation' = <<>>
    /\ bestLineup' = <<>>
    /\ bestValidationCount' = Infinity
    /\ history' = <<>>
    /\ UNCHANGED <<players, configVars, lineup, schedVars, captains>>

(* The scheduler alone, on the application's field sizes *)

SitFieldSizes == {5}

\* the flagged players are the first of the roster (mustRest) and the last
\* (a season history): the shuffles make every other placement a renaming
InitSit ==
    /\ playersOnField \in SitFieldSizes
    /\ positions = getPositionsForFormation(playersOnField)
    /\ maxAttempts = 1
    /\ \/ \E n \in playersOnField..(playersOnField + MaxBench) :
          \E k \in 0..MaxMustRest, v \in 0..MaxVeterans :
             /\ players = MakeRoster(n, 1..k, {}, {}, "available")
             /\ seasonStats = MakeSeason(n, (n - v + 1)..n)
       \/ \E v \in 0..MaxVeterans :
             \* a bench larger than the field: two sits each before any extra
             LET n == 2 * playersOnField + 1
             IN /\ players = MakeRoster(n, 1..(n - 2), {}, {}, "available")
                /\ seasonStats = MakeSeason(n, (n - v + 1)..n)
    /\ InitControl

NextSit == StartGeneration \/ BeginAttempt \/ SitMin \/ SitExtra

SpecSit == InitSit /\ [][NextSit]_vars

(* Generation runs on a three-position formation: a keeper, a back and a    *)
(* forward, the smallest formation with every role (the application's own  *)
(* start at five positions).                                               *)

SmallFormation == <<"Keeper", "Left Back", "Striker">>

Scenario(n, rest, nokeeper, out, st, vets, budget) ==
    [n |-> n, rest |-> rest, nokeeper |-> nokeeper, out |-> out, st |-> st,
     vets |-> vets, budget |-> budget]

Least(a, b) == IF a < b THEN a ELSE b

\* as many players as positions, nobody sits: the search runs out of attempts
FullFieldScenarios ==
    {Scenario(3, {}, 1..k, {}, "available", (3 - v + 1)..3, MaxAttempts) :
        k \in 0..Least(MaxNoKeeper, 3), v \in 0..MaxVeterans}

\* one player on the bench, all flagged mustRest: the first pass fixes the
\* schedule, the search accepts an attempt or runs out
FixedBenchScenarios ==
    {Scenario(4, 1..4, 1..k, {}, "available", (4 - v + 1)..4, MaxAttempts) :
        k \in 0..Least(MaxNoKeeper, 4), v \in 0..MaxVeterans}

\* one player on the bench, shuffled schedule, one attempt; the last player
\* of the roster may be injured or absent
OneBenchScenarios ==
    {Scenario(4, 1..k, {}, {}, "available", {}, 1) : k \in 0..MaxMustRest}
        \cup {Scenario(4, 1..k, {}, {4}, st, {}, 1) :
                 k \in 0..MaxMustRest, st \in {"injured", "absent"}}

\* two players on the bench, one attempt
TwoBenchScenarios == {Scenario(5, 1..5, {}, {}, "available", {}, 1)}

\* fewer available players than positions
ShortScenarios == {Scenario(3, {}, {}, {3}, "injured", {}, MaxAttempts)}

Scenarios ==
    FullFieldScenarios \cup FixedBenchScenarios \cup OneBenchScenarios
        \cup TwoBenchScenarios \cup ShortScenarios

\* a formation with as many defensive as offensive positions, on which a
\* roster without a bench can pass validateLineup (as the application's 6v6
\* 2-3-1 does)
EvenFormation == <<"Keeper", "Left Back", "Midfield", "Striker">>

\* on the even formation, one attempt: nobody on the bench, with and without
\* mustRest players; one player on the bench and everybody flagged mustRest
EvenScenarios ==
    {Scenario(4, 1..k, {}, {}, "available", {}, 1) : k \in 0..Least(MaxMustRest, 1)}
        \cup {Scenario(5, 1..5, {}, {}, "available", {}, 1)}

Next ==
    \/ StartGeneration
    \/ BeginAttempt
    \/ SitMin
    \/ SitExtra
    \/ generateQuarterLineup
    \/ EndAttempt
    \/ FinishGeneration

MaxCaptainGames == 2

\* getPlayerStats for a player who was captain in c saved games
CaptainStats(c) == [EmptyStats EXCEPT !.captainGames = c]

\* a full field on the small formation, one attempt, every count of captain
\* games per player
InitCaptainTiers ==
    /\ positions = SmallFormation
    /\ playersOnField = Len(SmallFormation)
    /\ players = MakeRoster(3, {}, {}, {}, "available")
    /\ \E t \in [1..3 -> 0..MaxCaptainGames] : seasonStats = [i \in 1..3 |-> CaptainStats(t[i])]
    /\ maxAttempts = 1

InitScenario(positionList, sc) ==
    /\ positions = positionList
    /\ playersOnField = Len(positionList)
    /\ players = MakeRoster(sc.n, sc.rest, sc.nokeeper, sc.out, sc.st)
    /\ seasonStats = MakeSeason(sc.n, sc.vets)
    /\ maxAttempts = sc.budget

Init ==
    /\ \/ \E sc \in Scenarios : InitScenario(SmallFormation, sc)
       \/ \E sc \in EvenScenarios : InitScenario(EvenFormation, sc)
       \/ InitCaptainTiers
    /\ InitControl

Spec == Init /\ [][Next]_vars

---------------------------------------------------------------------------
(* Properties *)

\* the quarters player i sits in a schedule
sitsOf(sched, i) == {q \in QuarterIds : i \in sched[q]}

\* the quarters in which a lineup maps some position to player i
quartersIn(l, i) ==
    {k \in 1..Len(l) : \E pos \in DOMAIN l[k].positions : l[k].positions[pos] = i}

\* the positions a lineup gives player i, as a set of <<quarter, position>>
positionsIn(l, i) ==
    {<<l[k].quarter, pos>> : k \in 1..Len(l), pos \in Range(positions)} \cap
    {x \in (1..quarters) \X Range(positions) :
        \E k \in 1..Len(l) : /\ l[k].quarter = x[1]
                             /\ x[2] \in DOMAIN l[k].positions
                             /\ l[k].positions[x[2]] = i}

preconditions == Len(players) >= playersOnField /\ Len(positions) = playersOnField

exhausted == attempts >= maxAttempts /\ history # <<>> /\ history[Len(history)].count > 0

accepted == pc = "done" /\ validation = <<>>

\* C1: given at least as many players as the field takes and a formation of
\* the field's size, every QuarterLineup maps every position of the formation
\* to a player, and no player to two positions.
C1_EveryPositionOnePlayer ==
    preconditions =>
        \A k \in 1..Len(lineup) :
            LET f == lineup[k].positions
            IN /\ DOMAIN f = Range(positions)
               /\ \A pos \in DOMAIN f : f[pos] \in PlayerIds
               /\ \A a, b \in DOMAIN f : f[a] = f[b] => a = b

C1_Witness ==
    /\ pc = "done"
    /\ Len(lineup) = quarters
    /\ Len(players) > playersOnField
    /\ preconditions

\* C2: when all quarters of an attempt are generated, every player's
\* quartersPlayed and quartersSitting are disjoint and together hold every
\* quarter 1..Q exactly once.
C2_PlaysOrSitsEveryQuarter ==
    pc = "validate" =>
        \A i \in PlayerIds :
            LET qp == players[i].quartersPlayed
                qs == players[i].quartersSitting
            IN /\ Range(qp) \cap Range(qs) = {}
               /\ Range(qp) \cup Range(qs) = QuarterIds
               /\ Len(qp) + Len(qs) = quarters

\* C3: with more players than the field takes, every quarter's sitting set of
\* the returned schedule holds exactly rosterSize - fieldSize players.
C3_SittingSetsFull ==
    (pc = "quarters" /\ Len(players) > playersOnField) =>
        \A q \in QuarterIds : Cardinality(schedule[q]) = Len(players) - playersOnField

\* C4: in the sitting schedule no player sits in two adjacent quarters and no
\* player sits in more than two quarters.
C4_NoAdjacentSitsAtMostTwo ==
    \A i \in PlayerIds :
        /\ Cardinality(sitsOf(schedule, i)) <= 2
        /\ \A a, b \in sitsOf(schedule, i) : Abs(a - b) # 1

C4_Witness ==
    /\ pc = "quarters"
    /\ minSitsPerPlayer >= 2
    /\ \E i \in PlayerIds : Cardinality(sitsOf(schedule, i)) = 2
    /\ \E i \in PlayerIds : Cardinality(sitsOf(schedule, i)) < minSitsPerPlayer

\* C5: the returned schedule gives every player floor(totalSlots / rosterSize)
\* sits or one more, and exactly (totalSlots mod rosterSize) players the larger
\* number.
C5_EvenDistribution ==
    (pc = "quarters" /\ Len(players) > playersOnField) =>
        /\ \A i \in PlayerIds :
              Cardinality(sitsOf(schedule, i)) \in {minSitsPerPlayer, minSitsPerPlayer + 1}
        /\ Cardinality({i \in PlayerIds :
                           Cardinality(sitsOf(schedule, i)) = minSitsPerPlayer + 1})
              = playersWithExtraSit

\* the attempt the search should return on exhaustion: the earliest among
\* those with the fewest issues
earliestBest ==
    CHOOSE k \in 1..Len(history) :
        /\ \A j \in 1..Len(history) : history[k].count <= history[j].count
        /\ \A j \in 1..(k - 1) : history[j].count > history[k].count

searchWithinBudget ==
    /\ attempts <= maxAttempts
    /\ Len(history) <= attempts
    /\ \A k \in 1..(Len(history) - 1) : history[k].count > 0
    /\ (pc = "attempt" /\ attempts > 0) => (attempts < maxAttempts /\ Len(validation) > 0)
    /\ pc = "done" =>
          /\ Len(history) = attempts
          /\ attempts >= 1
          /\ history[attempts].count = 0 \/ attempts = maxAttempts
          /\ Len(lineup) = quarters
          /\ Len(validation) = history[attempts].count

\* the steps one attempt can take at most: the passes of the schedule, the
\* quarters, the validation
attemptCost == 4 * (Len(players) + 1) + 10

\* the steps left within the current attempt
phaseCost ==
    CASE pc = "finish"   -> 1
      [] pc = "validate" -> 2
      [] pc = "quarters" -> 3 + (quarters - Len(lineup))
      [] pc = "sitExtra" -> 8 + (Len(players) - Cardinality(visited))
      [] pc = "sitMin"   -> 9 + Len(players)
                              + (minSitsPerPlayer - passI) * (Len(players) + 1)
                              - Cardinality(visited)
      [] OTHER           -> 0

\* a bound on the steps generateLineup has left
variant ==
    CASE pc \in {"done", "rejected"} -> 0
      [] pc = "idle"                 -> (maxAttempts + 1) * attemptCost
      [] OTHER                       -> (maxAttempts - attempts) * attemptCost + phaseCost

\* some step can be taken wherever generateLineup has not returned
\* (BeginAttempt has no guard but its pc)
neverStuck ==
    \/ pc \in {"done", "rejected"}
    \/ pc = "attempt"
    \/ ENABLED (StartGeneration \/ SitMin \/ SitExtra \/ generateQuarterLineup
                  \/ EndAttempt \/ FinishGeneration)

\* C7: the search always ends: every step lowers a bound on the steps left and
\* a step is possible until it has returned; it makes at most maxAttempts
\* attempts, goes on only after an attempt with issues, stops at the first
\* attempt without any, and ends either way with a full lineup and its issue
\* list.
C7_BoundedSearch ==
    /\ [](searchWithinBudget /\ neverStuck /\ variant >= 0)
    /\ [][variant' < variant]_vars

C7_Witness ==
    /\ pc = "done"
    /\ attempts = maxAttempts
    /\ maxAttempts > 1
    /\ Len(validation) > 0

\* C8: in an accepted lineup no player is Keeper in more than one quarter, and
\* every player who played has defensive and offensive quarter counts at most
\* one apart.
C8_AcceptedKeeperAndBalance ==
    accepted =>
        \A i \in PlayerIds :
            LET mine == positionsIn(lineup, i)
                d    == Cardinality({x \in mine : isDefensivePosition(x[2])})
                o    == Cardinality({x \in mine : ~isDefensivePosition(x[2])})
            IN /\ Cardinality({x \in mine : x[2] = "Keeper"}) <= 1
               /\ mine # {} => Abs(d - o) <= 1

C8_Witness ==
    /\ accepted
    /\ attempts > 1
    /\ \A i \in PlayerIds : Cardinality(quartersIn(lineup, i)) = 3

\* C9: a player whose status is injured or absent is in no sitting set, holds
\* no position of a QuarterLineup, and is not counted in the roster size the
\* sitting slots are computed from.
C9_OnlyAvailablePlayersParticipate ==
    pc \in {"sitMin", "sitExtra", "quarters", "validate", "finish", "done"} =>
        /\ sittingPerQuarter = Cardinality(availablePlayers) - playersOnField
        /\ \A i \in PlayerIds \ availablePlayers :
              /\ sitsOf(schedule, i) = {}
              /\ players[i].quartersSitting = <<>>
              /\ quartersIn(lineup, i) = {}

\* C10: in an accepted lineup a player with noKeeper set is Keeper in no
\* quarter.
C10_NoKeeperNeverKeeper ==
    accepted =>
        \A i \in PlayerIds :
            players[i].noKeeper => \A x \in positionsIn(lineup, i) : x[2] # "Keeper"

\* C11: in an accepted lineup every player with mustRest set sits in at
\* least one quarter.
C11_MustRestSits ==
    accepted =>
        \A i \in PlayerIds :
            players[i].mustRest =>
                /\ players[i].quartersSitting # <<>>
                /\ quartersIn(lineup, i) # QuarterIds

---------------------------------------------------------------------------
(* validateLineup on a loaded game *)

\* the quarters of a saved game that may differ between the players of a
\* roster of more than one
MaxLoadedQuarters == 3

\* a player's accumulators as generateQuarterLineup writes them over the
\* quarters, for the quarters `sat` on the bench and the positions f played
RECURSIVE recordGame(_, _, _, _)
recordGame(pl, q, sat, f) ==
    IF q > quarters THEN pl
    ELSE recordGame(IF q \in sat THEN satQuarter(pl, q)
                    ELSE IF q \in DOMAIN f /\ f[q] # "" THEN playedQuarter(pl, q, f[q])
                    ELSE pl,
                    q + 1, sat, f)

\* the records a saved game can hold for player i over the first nq quarters
savedRecords(i, nq) ==
    {recordGame(NewPlayer(i, FALSE, FALSE, "available"), 1, sat, f) :
        sat \in SUBSET (1..nq),
        f \in UNION {[D -> Range(positions) \cup {""}] : D \in SUBSET (1..nq)}}

\* game.lineup as the records of game.players give it
lineupOf(ps) ==
    [q \in QuarterIds |->
        [quarter |-> q,
         positions |->
            [pos \in {pos \in Range(positions) :
                         \E i \in 1..Len(ps) :
                            \E k \in 1..Len(ps[i].positionsPlayed) :
                               ps[i].positionsPlayed[k] = [quarter |-> q, position |-> pos]}
              |-> CHOOSE i \in 1..Len(ps) :
                     \E k \in 1..Len(ps[i].positionsPlayed) :
                        ps[i].positionsPlayed[k] = [quarter |-> q, position |-> pos]]]]

\* no position of a quarter is recorded for two players
consistentGame(ps) ==
    \A i, j \in 1..Len(ps) :
        i # j => Range(ps[i].positionsPlayed) \cap Range(ps[j].positionsPlayed) = {}

\* one player over all the quarters, or two over the first MaxLoadedQuarters
savedGames ==
    {<<r>> : r \in savedRecords(1, quarters)}
        \cup {g \in {<<a, b>> : a \in savedRecords(1, MaxLoadedQuarters),
                                b \in savedRecords(2, MaxLoadedQuarters)} :
                 consistentGame(g)}

\* loadSavedGame: the players and the lineup of the game replace the current
\* ones, and the lineup is shown with what validateLineup returns
loadSavedGame ==
    /\ pc = "idle"
    /\ \E g \in savedGames :
          /\ players' = g
          /\ lineup' = lineupOf(g)
          /\ seasonStats' = MakeSeason(Len(g), {})
          /\ validation' = validateLineup(g)
    /\ captains' = <<>>
    /\ pc' = "shown"
    /\ UNCHANGED <<playersOnField, positions, maxAttempts, attempts, bestLineup,
                   bestValidationCount, history, schedVars, ageDivision, formation,
                   seasonGames, syncVars,
                   moduleVars>>
    /\ undoStack' = saveStateForUndo
    /\ redoStack' = <<>>

InitVal ==
    /\ positions = SmallFormation
    /\ playersOnField = Len(SmallFormation)
    /\ players = <<>>
    /\ seasonStats = <<>>
    /\ maxAttempts = 1
    /\ InitControl

NextVal == loadSavedGame

SpecVal == InitVal /\ [][NextVal]_vars

\* the quarters a record has some position for
playedIn(pl) == {pl.positionsPlayed[k].quarter : k \in 1..Len(pl.positionsPlayed)}

\* the rules of the lineup, read off a player's record
breaksNoRule(pl) ==
    LET sits == Range(pl.quartersSitting)
        at(pos) == {x \in Range(pl.positionsPlayed) : x.position = pos}
    IN /\ Cardinality(at("Keeper")) <= 1
       /\ \A a, b \in sits : Abs(a - b) # 1
       /\ Len(pl.quartersSitting) <= 2
       /\ Len(pl.quartersPlayed) > 0 =>
             /\ pl.defensiveQuarters > 0
             /\ pl.offensiveQuarters > 0
             /\ Abs(pl.defensiveQuarters - pl.offensiveQuarters) <= 1
       /\ \A pos \in Range(positions) : Cardinality(at(pos)) <= 1

attemptStarted ==
    /\ attempts >= 1
    /\ pc \in {"sitMin", "sitExtra", "quarters"}
    /\ lineup = <<>>

\* C13: when an attempt starts, every player's quartersPlayed, quartersSitting
\* and positionsPlayed are empty, goalieQuarter is null and both role counters
\* are 0, whatever the attempt before has written.
C13_AccumulatorsReset ==
    attemptStarted =>
        \A i \in PlayerIds :
            /\ players[i].quartersPlayed = <<>>
            /\ players[i].quartersSitting = <<>>
            /\ players[i].positionsPlayed = <<>>
            /\ players[i].goalieQuarter = 0
            /\ players[i].defensiveQuarters = 0
            /\ players[i].offensiveQuarters = 0

C13_Witness ==
    /\ attemptStarted
    /\ attempts = 2
    /\ Len(history) = 1
    /\ Len(history[1].lineup) = quarters
    /\ history[1].count > 0

\* the keeper of the k-th generated quarter, the players it was chosen among
\* and those of them who had kept goal in an earlier quarter of the attempt
keeperOf(k) == lineup[k].positions["Keeper"]

keeperPool(k) == PlayerIds \ schedule[k]

keptBefore(k) == {keeperOf(j) : j \in 1..(k - 1)}

keeperEligible(k) ==
    IF \E p \in keeperPool(k) : ~players[p].noKeeper
    THEN {p \in keeperPool(k) : ~players[p].noKeeper}
    ELSE keeperPool(k)

\* C14: the keeper of a quarter has noKeeper unset whenever a playing player
\* has; has not been keeper this game whenever such an eligible player
\* exists; and then has the fewest season goalkeeper quarters among those.
C14_KeeperPreferences ==
    pc \in {"quarters", "validate"} =>
        \A k \in 1..Len(lineup) :
            LET fresh == keeperEligible(k) \ keptBefore(k)
            IN /\ keeperOf(k) \in keeperEligible(k)
               /\ fresh # {} =>
                     /\ keeperOf(k) \in fresh
                     /\ \A q \in fresh : seasonStats[keeperOf(k)].goalkeeperQuarters
                                            <= seasonStats[q].goalkeeperQuarters

C14_Witness ==
    /\ pc = "validate"
    /\ \E i \in PlayerIds : players[i].noKeeper
    /\ \E i \in PlayerIds : ~players[i].noKeeper
    /\ \E k \in 1..Len(lineup) :
          /\ seasonStats[keeperOf(k)].goalkeeperQuarters > 0
          /\ keeperOf(k) \notin keptBefore(k)
    /\ \E k \in 1..Len(lineup) : keeperOf(k) \in keptBefore(k)

\* C15: after generateLineup the captains are at most 2 distinct available
\* players, and no available player left out has been captain in strictly
\* fewer games of the season than one of them.
C15_CaptainsFromLowestTiers ==
    pc = "done" =>
        /\ Len(captains) <= 2
        /\ \A a, b \in 1..Len(captains) : captains[a] = captains[b] => a = b
        /\ Range(captains) \subseteq availablePlayers
        /\ \A c \in Range(captains) :
              \A p \in availablePlayers \ Range(captains) :
                  captainGames(p) >= captainGames(c)

\* C16: with no more players than the field takes, the schedule
\* determineSittingSchedule returns has an empty sitting set in every quarter.
C16_NoBenchNoSitting ==
    (pc = "quarters" /\ Len(players) <= playersOnField) =>
        \A q \in QuarterIds : schedule[q] = {}

C16_Witness ==
    /\ pc = "quarters"
    /\ attempts = 1
    /\ Len(players) = playersOnField
    /\ \E i \in PlayerIds : players[i].mustRest
    /\ \A q \in QuarterIds : schedule[q] = {}

---------------------------------------------------------------------------
(* The scheduler for 10 players at 7v7 *)

\* 10 available players on the 7v7 field; the mustRest players are the first
\* k of the roster for every k (the shuffle makes any other choice of k
\* players a renaming)
InitSitTen ==
    /\ playersOnField = 7
    /\ positions = getPositionsForFormation(playersOnField)
    /\ maxAttempts = 1
    /\ \E k \in 0..10 : players = MakeRoster(10, 1..k, {}, {}, "available")
    /\ seasonStats = MakeSeason(10, {})
    /\ InitControl

SpecSitTen == InitSitTen /\ [][NextSit]_vars

\* C17: for 10 players at 7v7 the schedule has exactly 8 players sitting once
\* and exactly 2 sitting twice, and nobody sitting in adjacent quarters.
C17_TenPlayersSevenField ==
    pc = "quarters" =>
        /\ Cardinality({i \in PlayerIds : Cardinality(sitsOf(schedule, i)) = 1}) = 8
        /\ Cardinality({i \in PlayerIds : Cardinality(sitsOf(schedule, i)) = 2}) = 2
        /\ \A i \in PlayerIds : \A a, b \in sitsOf(schedule, i) : Abs(a - b) # 1

C17_Witness ==
    /\ pc = "quarters"
    /\ Len(players) = 10
    /\ playersOnField = 7
    /\ \E i \in PlayerIds : players[i].mustRest /\ Cardinality(sitsOf(schedule, i)) = 2
    /\ \E i \in PlayerIds : ~players[i].mustRest /\ Cardinality(sitsOf(schedule, i)) = 2
    /\ \A q \in QuarterIds : Cardinality(schedule[q]) = 3

---------------------------------------------------------------------------
(* A generation, a player marked unavailable, a generation again *)

MaxStatusChanges == 1

\* updatePlayerStatus, on the lineup a generation has left
updatePlayerStatus ==
    /\ pc = "done"
    /\ Cardinality(PlayerIds \ availablePlayers) < MaxStatusChanges
    /\ \E i \in PlayerIds, status \in {"injured", "absent"} :
          players' = [players EXCEPT ![i].status = status]
    /\ pc' = "idle"
    /\ undoStack' = saveStateForUndo
    /\ redoStack' = <<>>
    /\ UNCHANGED <<settingsVars, lineup, searchVars, schedVars, captains>>

InitReject ==
    /\ InitScenario(SmallFormation, Scenario(3, {}, {}, {}, "available", {}, 1))
    /\ InitControl

NextReject ==
    \/ StartGeneration
    \/ BeginAttempt
    \/ generateQuarterLineup
    \/ EndAttempt
    \/ FinishGeneration
    \/ updatePlayerStatus

SpecReject == InitReject /\ [][NextReject]_vars

tooFewAvailable == Cardinality(availablePlayers) < playersOnField

\* C19: with fewer available players than the field takes, generateLineup
\* returns at once: the lineup, every player's accumulators and the captains
\* stay as they were, and no attempt follows.
C19_RejectedLeavesStateAlone ==
    /\ [][(pc = "idle" /\ tooFewAvailable) =>
             /\ pc' = "rejected"
             /\ lineup' = lineup
             /\ players' = players
             /\ captains' = captains]_vars
    /\ [](pc = "rejected" => ~ENABLED NextReject)

C19_Witness ==
    /\ pc = "rejected"
    /\ Len(lineup) = quarters
    /\ Len(captains) = 2
    /\ \E i \in PlayerIds : players[i].quartersPlayed # <<>>

---------------------------------------------------------------------------
(* The settings panel: age division, field size and formation *)

MaxRoster == 4

AgeDivisions == {"10U", "12U", "14U", "16U", "19U"}

\* getPositionsForFormation(formation) for every this.playersOnField
positionsForFormation(fieldSize, f) ==
    IF fieldSize = 11 THEN
        CASE f = "4-3-3" ->
               <<"Keeper", "Left Back", "Left Center Back", "Right Center Back", "Right Back",
                 "Left Mid", "Center Mid", "Right Mid", "Left Wing", "Striker", "Right Wing">>
          [] f = "4-2-3-1" ->
               <<"Keeper", "Left Back", "Left Center Back", "Right Center Back", "Right Back",
                 "Left Defensive Mid", "Right Defensive Mid", "Left Wing", "Attacking Mid",
                 "Right Wing", "Striker">>
          [] f = "3-5-2" ->
               <<"Keeper", "Left Center Back", "Center Back", "Right Center Back",
                 "Left Wing Back", "Left Mid", "Center Mid", "Right Mid", "Right Wing Back",
                 "Left Striker", "Right Striker">>
          [] f = "5-3-2" ->
               <<"Keeper", "Left Wing Back", "Left Center Back", "Center Back",
                 "Right Center Back", "Right Wing Back", "Left Mid", "Center Mid", "Right Mid",
                 "Left Striker", "Right Striker">>
          [] OTHER ->
               <<"Keeper", "Left Back", "Left Center Back", "Right Center Back", "Right Back",
                 "Left Mid", "Left Center Mid", "Right Center Mid", "Right Mid",
                 "Left Striker", "Right Striker">>
    ELSE IF fieldSize = 9 THEN
        CASE f = "3-2-3" ->
               <<"Keeper", "Left Back", "Center Back", "Right Back", "Left Mid", "Right Mid",
                 "Left Wing", "Striker", "Right Wing">>
          [] f = "2-3-3" ->
               <<"Keeper", "Left Back", "Right Back", "Left Mid", "Center Mid", "Right Mid",
                 "Left Wing", "Striker", "Right Wing">>
          [] OTHER ->
               <<"Keeper", "Left Back", "Center Back", "Right Back", "Left Mid", "Center Mid",
                 "Right Mid", "Left Forward", "Right Forward">>
    ELSE IF fieldSize = 7 \/ fieldSize = 6 THEN
        CASE f = "3-2-1" ->
               IF fieldSize = 6
               THEN <<"Keeper", "Left Back", "Center Back", "Right Back", "Left Mid", "Striker">>
               ELSE <<"Keeper", "Left Back", "Center Back", "Right Back", "Left Mid",
                      "Right Mid", "Striker">>
          [] f = "2-2-2" ->
               IF fieldSize = 6
               THEN <<"Keeper", "Left Back", "Right Back", "Left Mid", "Right Mid", "Striker">>
               ELSE <<"Keeper", "Left Back", "Right Back", "Left Mid", "Right Mid",
                      "Left Striker", "Right Striker">>
          [] f = "3-3" ->
               IF fieldSize = 6
               THEN <<"Keeper", "Left Back", "Center Back", "Right Back", "Left Mid",
                      "Center Mid", "Right Mid">>
               ELSE <<"Keeper", "Left Back", "Center Back", "Right Back", "Left Mid",
                      "Center Mid", "Right Mid">>
          [] OTHER ->
               IF fieldSize = 6
               THEN <<"Keeper", "Left Back", "Right Back", "Left Mid", "Right Mid", "Striker">>
               ELSE <<"Keeper", "Left Back", "Right Back", "Left Wing", "Right Wing",
                      "Center Mid", "Striker">>
    ELSE IF fieldSize = 5 THEN
        <<"Keeper", "Left Back", "Right Back", "Midfield", "Striker">>
    ELSE <<"Keeper", "Left Back", "Right Back", "Left Wing", "Right Wing", "Center Mid",
           "Striker">>

\* updateFieldOptions: the options of the field-size select
fieldOptions(age) ==
    IF age = "10U" THEN {7, 6} ELSE IF age = "12U" THEN {9} ELSE {11}

\* updateFieldOptions: the field size it sets
updateFieldOptions(age) ==
    IF age = "10U" THEN 7 ELSE IF age = "12U" THEN 9 ELSE 11

\* updateFormationOptions: the options of the formation select
formationOptions(fieldSize) ==
    IF fieldSize = 11 THEN {"4-3-3", "4-4-2", "4-2-3-1", "3-5-2", "5-3-2"}
    ELSE IF fieldSize = 9 THEN {"3-3-2", "3-2-3", "2-3-3"}
    ELSE {"2-3-1", "3-2-1", "2-2-2", "3-3"}

\* updateFormationOptions: the formation it leaves, given the select's value
updateFormationOptions(fieldSize, currentValue) ==
    IF currentValue \in formationOptions(fieldSize) THEN currentValue
    ELSE IF fieldSize = 11 THEN "4-4-2"
    ELSE IF fieldSize = 9 THEN "3-3-2"
    ELSE "2-3-1"

\* the change handler of the age-division select
changeAgeDivision ==
    /\ pc = "idle"
    /\ \E age \in AgeDivisions :
          LET fieldSize == updateFieldOptions(age)
              f == updateFormationOptions(fieldSize, formation)
          IN /\ ageDivision' = age
             /\ playersOnField' = fieldSize
             /\ formation' = f
             /\ positions' = positionsForFormation(fieldSize, f)
    /\ UNCHANGED <<players, seasonStats, seasonGames, syncVars, undoStack, redoStack, maxAttempts,
                   lineup, pc, searchVars, schedVars,
                   captains,
                   moduleVars>>

\* the change handler of the field-size select
changeFieldPlayers ==
    /\ pc = "idle"
    /\ \E fieldSize \in fieldOptions(ageDivision) :
          LET f == updateFormationOptions(fieldSize, formation)
          IN /\ playersOnField' = fieldSize
             /\ formation' = f
             /\ positions' = positionsForFormation(fieldSize, f)
    /\ UNCHANGED <<players, seasonStats, seasonGames, syncVars, undoStack, redoStack, maxAttempts,
                   ageDivision, lineup, pc, searchVars,
                   schedVars, captains,
                   moduleVars>>

\* the change handler of the formation select
changeFormation ==
    /\ pc = "idle"
    /\ \E f \in formationOptions(playersOnField) :
          /\ formation' = f
          /\ positions' = positionsForFormation(playersOnField, f)
    /\ UNCHANGED <<players, playersOnField, seasonStats, seasonGames, syncVars, undoStack,
                   redoStack, maxAttempts,
                   ageDivision, lineup,
                   pc, searchVars, schedVars, captains,
                   moduleVars>>

\* Names are numbered: 1..MaxRoster are names in lower case, MaxRoster + k is
\* name k with a capital, EmptyName is a name that trims to nothing and
\* LongName a name of more than 50 characters.
EmptyName == 0

LongName == 2 * MaxRoster + 1

toLowerCase(name) ==
    IF name > MaxRoster /\ name <= 2 * MaxRoster THEN name - MaxRoster ELSE name

\* faulty alternative: the state is saved for undo before the input is checked
addPlayerSavingFirst(name, number) ==
    IF \/ name = EmptyName
       \/ name = LongName
       \/ \E i \in PlayerIds : toLowerCase(players[i].name) = toLowerCase(name)
       \/ number # Null /\ \E i \in PlayerIds : players[i].number = number
       \/ Len(players) >= MaxRoster
    THEN [accepted |-> FALSE, players |-> players, undoStack |-> saveStateForUndo,
          redoStack |-> <<>>]
    ELSE [accepted |-> TRUE,
          players |-> Append(players, [NewPlayer(name, FALSE, FALSE, "available")
                                          EXCEPT !.number = number]),
          undoStack |-> saveStateForUndo, redoStack |-> <<>>]

\* addPlayer(name, number): whether the player was added, and the roster and
\* the stacks it leaves; the roster takes MaxRoster players
addPlayerOutcome(name, number) ==
    IF \/ name = EmptyName
       \/ name = LongName
       \/ \E i \in PlayerIds : toLowerCase(players[i].name) = toLowerCase(name)
       \/ number # Null /\ \E i \in PlayerIds : players[i].number = number
       \/ Len(players) >= MaxRoster
    THEN [accepted |-> FALSE, players |-> players, undoStack |-> undoStack,
          redoStack |-> redoStack]
    ELSE [accepted |-> TRUE,
          players |-> Append(players, [NewPlayer(name, FALSE, FALSE, "available")
                                          EXCEPT !.number = number]),
          undoStack |-> saveStateForUndo, redoStack |-> <<>>]

addPlayer(name, number) ==
    /\ pc = "idle"
    /\ players' = addPlayerOutcome(name, number).players
    /\ undoStack' = addPlayerOutcome(name, number).undoStack
    /\ redoStack' = addPlayerOutcome(name, number).redoStack
    /\ UNCHANGED <<settingsVars, lineup, pc, searchVars, schedVars, captains>>

InitSettings ==
    /\ players = <<>>
    /\ playersOnField = 7
    /\ positions = positionsForFormation(7, "2-3-1")
    /\ seasonStats = <<>>
    /\ maxAttempts = 1
    /\ InitControl

NextSettings ==
    \/ changeAgeDivision
    \/ changeFieldPlayers
    \/ changeFormation
    \/ addPlayer(Len(players) + 1, Null)

SpecSettings == InitSettings /\ [][NextSettings]_vars

\* C20: whatever field size and formation the selects offer, this.positions
\* has exactly playersOnField entries, no name twice and exactly one "Keeper".
C20_PositionsMatchFieldSize ==
    /\ Len(positions) = playersOnField
    /\ \A i, j \in 1..Len(positions) : positions[i] = positions[j] => i = j
    /\ Cardinality({i \in 1..Len(positions) : positions[i] = "Keeper"}) = 1

---------------------------------------------------------------------------
(* The random draws of one quarter *)

\* every lineup generateQuarterLineup can produce for the coming quarter: one
\* per outcome of the Math.random draws in selectKeeper, the position shuffle
\* and the score jitter
quarterOutcomes ==
    LET playingPlayers == PlayerIds \ schedule[Len(lineup) + 1]
        keepers        == IF "Keeper" \in Range(positions)
                          THEN selectKeeper(playingPlayers) ELSE {}
    IN UNION {{IF keeper # 0 THEN ("Keeper" :> keeper) @@ a ELSE a :
                  a \in assignPositionsOptimally(
                           playingPlayers \ {keeper},
                           Range(positions) \ (IF keeper # 0 THEN {"Keeper"} ELSE {}))} :
              keeper \in (IF keepers = {} THEN {0} ELSE keepers)}

\* C21: two runs on identical input produce identical output. generateLineup
\* takes no seed, so the input is the roster, the formation, the quarters, the
\* budget and the season summary, all of them part of the state: the runs
\* agree only if the state leaves one outcome for every quarter.
C21_SameInputSameOutput ==
    pc = "quarters" => Cardinality(quarterOutcomes) <= 1

---------------------------------------------------------------------------
(* validateLineup called again on the lineup that is shown *)

\* faulty alternative: the issues are collected in a list that outlives the call
validateAgainAppending ==
    /\ pc = "shown"
    /\ validation' = validation \o validateLineup(players)
    /\ pc' = "revalidated"
    /\ UNCHANGED <<players, configVars, lineup, attempts, bestLineup, bestValidationCount,
                   history, schedVars, captains>>

\* a second this.validateLineup() on the same players and lineup
validateAgain ==
    /\ pc = "shown"
    /\ validation' = validateLineup(players)
    /\ pc' = "revalidated"
    /\ UNCHANGED <<players, configVars, lineup, attempts, bestLineup, bestValidationCount,
                   history, schedVars, captains>>

NextValTwice ==
    \/ loadSavedGame
    \/ validateAgain

SpecValTwice == InitVal /\ [][NextValTwice]_vars

---------------------------------------------------------------------------
(* Keeper quarters of the lineup that is returned *)

\* the quarters of lineup l in which player i is the Keeper
keeperQuartersIn(l, i) ==
    {k \in 1..Len(l) : "Keeper" \in DOMAIN l[k].positions /\ l[k].positions["Keeper"] = i}

\* C23: in the lineup generateLineup returns, accepted or best-effort, no
\* player is the Keeper of two quarters.
C23_KeeperAtMostOnce ==
    pc = "done" => \A i \in PlayerIds : Cardinality(keeperQuartersIn(lineup, i)) <= 1

---------------------------------------------------------------------------
(* The season: games saved one after the other, and the statistics over them *)

MaxSavedGames == 2

\* getPlayerStats: what one saved game adds to the statistics s of a player
\* whose record in that game is pl
addGame(s, pl, game) ==
    [gamesPlayed        |-> s.gamesPlayed + (IF pl.status = "available" THEN 1 ELSE 0),
     totalSitting       |-> s.totalSitting + Len(pl.quartersSitting),
     goalkeeperQuarters |-> s.goalkeeperQuarters + (IF pl.goalieQuarter # 0 THEN 1 ELSE 0),
     captainGames       |-> s.captainGames + (IF pl.name \in Range(game.captains) THEN 1 ELSE 0),
     positions          |-> [x \in DOMAIN s.positions |-> s.positions[x] + positionCount(pl, x)]]

RECURSIVE statsOver(_, _, _)
statsOver(games, k, i) ==
    IF k = 0
    THEN [gamesPlayed |-> 0, totalSitting |-> 0, goalkeeperQuarters |-> 0, captainGames |-> 0,
          positions |-> [x \in Range(positions) |-> 0]]
    ELSE IF i \in 1..Len(games[k].players)
    THEN addGame(statsOver(games, k - 1, i), games[k].players[i], games[k])
    ELSE statsOver(games, k - 1, i)

\* getPlayerStats: the statistics of every player of the roster
getPlayerStats(games) == [i \in PlayerIds |-> statsOver(games, Len(games), i)]

\* generateLineup up to the loop, with the statistics read from the saved games
StartGenerationOfSeason ==
    /\ pc = "idle"
    /\ Len(seasonGames) < MaxSavedGames
    /\ pc' = IF Cardinality(availablePlayers) < playersOnField THEN "rejected" ELSE "attempt"
    /\ seasonStats' = getPlayerStats(seasonGames)
    /\ attempts' = 0
    /\ validation' = <<>>
    /\ bestLineup' = <<>>
    /\ bestValidationCount' = Infinity
    /\ history' = <<>>
    /\ UNCHANGED <<players, playersOnField, positions, maxAttempts, ageDivision, formation,
                   seasonGames, syncVars, undoStack, redoStack, lineup, schedVars, captains,
                   moduleVars>>

\* saveCurrentGame, on the lineup a generation has left
saveCurrentGame ==
    /\ pc = "done"
    /\ Len(lineup) # 0
    /\ Len(seasonGames) < MaxSavedGames
    /\ seasonGames' = Append(seasonGames, [players |-> players, captains |-> captains])
    /\ pc' = "idle"
    /\ UNCHANGED <<players, playersOnField, positions, seasonStats, maxAttempts, ageDivision,
                   formation, syncVars, undoStack, redoStack, lineup, searchVars, schedVars,
                   captains,
                   moduleVars>>

NextSeason ==
    \/ StartGenerationOfSeason
    \/ BeginAttempt
    \/ generateQuarterLineup
    \/ EndAttempt
    \/ FinishGeneration
    \/ saveCurrentGame

SpecSeason == InitReject /\ [][NextSeason]_vars

\* the quarters of the saved games in which player i was the Keeper
keeperQuartersSaved(games, i) ==
    {<<k, q>> \in (1..Len(games)) \X QuarterIds :
        /\ i \in 1..Len(games[k].players)
        /\ [quarter |-> q, position |-> "Keeper"] \in Range(games[k].players[i].positionsPlayed)}

\* C24: for every player, the goalkeeperQuarters of the season statistics is
\* the number of quarters in which the saved games have the player as Keeper.
C24_GoalkeeperQuartersCounted ==
    \A i \in PlayerIds :
        getPlayerStats(seasonGames)[i].goalkeeperQuarters
            = Cardinality(keeperQuartersSaved(seasonGames, i))

---------------------------------------------------------------------------
(* The captain checkboxes of the roster *)

MAX_CAPTAINS == 2

Without(s, x) == SelectSeq(s, LAMBDA y : y # x)

\* faulty alternative: the captain taken off the list keeps the flag
toggleCaptainKeepingFlag(ps, cs, playerName, isChecked) ==
    IF isChecked
    THEN [captains |-> Append(IF Len(cs) >= MAX_CAPTAINS THEN Tail(cs) ELSE cs, playerName),
          players  |-> [ps EXCEPT ![playerName].isCaptain = TRUE]]
    ELSE [captains |-> Without(cs, playerName),
          players  |-> [ps EXCEPT ![playerName].isCaptain = FALSE]]

\* toggleCaptainByName: the captains and the players it leaves
toggleCaptain(ps, cs, playerName, isChecked) ==
    IF isChecked
    THEN LET full    == Len(cs) >= MAX_CAPTAINS
             removed == IF full THEN [ps EXCEPT ![Head(cs)].isCaptain = FALSE] ELSE ps
         IN [captains |-> Append(IF full THEN Tail(cs) ELSE cs, playerName),
             players  |-> [removed EXCEPT ![playerName].isCaptain = TRUE]]
    ELSE [captains |-> Without(cs, playerName),
          players  |-> [ps EXCEPT ![playerName].isCaptain = FALSE]]

\* the change of a captain checkbox; the checkbox shows whether the player is
\* on the captains list, so a change asks for the opposite
toggleCaptainByName ==
    /\ pc \in {"idle", "done"}
    /\ \E playerName \in PlayerIds :
          LET r == toggleCaptain(players, captains, playerName,
                                 playerName \notin Range(captains))
          IN /\ captains' = r.captains
             /\ players' = r.players
    /\ undoStack' = saveStateForUndo
    /\ redoStack' = <<>>
    /\ UNCHANGED <<settingsVars, lineup, pc, searchVars, schedVars>>

NextCaptains ==
    \/ StartGeneration
    \/ BeginAttempt
    \/ generateQuarterLineup
    \/ EndAttempt
    \/ FinishGeneration
    \/ toggleCaptainByName

SpecCaptains == InitReject /\ [][NextCaptains]_vars

\* C25: the captains list never has more than 2 names, and a checkbox turned
\* on while it has 2 takes the earliest of them off the list, clears that
\* player's isCaptain and puts the new captain last.
C25_AtMostTwoCaptainsFifo ==
    /\ [](Len(captains) <= MAX_CAPTAINS)
    /\ [][(captains' # captains /\ pc' = pc
             /\ Len(captains) = MAX_CAPTAINS /\ Len(captains') = MAX_CAPTAINS) =>
             /\ captains'[1] = captains[2]
             /\ captains'[2] \notin Range(captains)
             /\ ~players'[captains[1]].isCaptain
             /\ \A i \in PlayerIds : players'[i].isCaptain <=> i \in Range(captains')]_vars

C25_Witness ==
    /\ pc = "idle"
    /\ Len(captains) = MAX_CAPTAINS
    /\ captains[1] > captains[2]
    /\ \E i \in PlayerIds : i \notin Range(captains)
    /\ \A i \in PlayerIds : players[i].isCaptain <=> i \in Range(captains)

---------------------------------------------------------------------------
(* The sync engine: the roster pushed to the players table of the server *)

MaxQueue == 2

\* bulkUpsertPlayers: the row sent for one player
playerData(pl) ==
    [name |-> pl.name, number |-> pl.number, is_captain |-> pl.isCaptain,
     must_rest |-> pl.mustRest,
     no_keeper |-> pl.noKeeper, status |-> IF pl.status = "" THEN "available" ELSE pl.status]

\* bulkUpsertPlayers: the table after the upsert of a roster, on conflict by name
bulkUpsertPlayers(table, roster) ==
    [n \in DOMAIN table \cup {roster[i].name : i \in 1..Len(roster)} |->
        IF \E i \in 1..Len(roster) : roster[i].name = n
        THEN playerData(roster[CHOOSE i \in 1..Len(roster) : roster[i].name = n])
        ELSE table[n]]

\* everything but the state of the sync engine
nonSyncVars == <<players, playersOnField, positions, seasonStats, maxAttempts, ageDivision,
                 formation, seasonGames, undoStack, redoStack, lineup, pc, searchVars,
                 schedVars,
                 captains, moduleVars>>

MaxPushes == 3

GameIds == 1..2

\* queueChange: the queue with the change at its end, the time as its stamp
queueChange(entityType, data) ==
    [entityType |-> entityType, data |-> data, timestamp |-> Cardinality(queued) + 1]

Returned(entityType, data, before, result) ==
    [pc |-> "idle", entityType |-> entityType, data |-> data, before |-> before,
     result |-> result]

\* pushGame, "Save locally first": the game replaces the one of its id or
\* goes to the front
withGame(games, game) ==
    IF \E k \in 1..Len(games) : games[k].id = game.id
    THEN [k \in 1..Len(games) |-> IF games[k].id = game.id THEN game ELSE games[k]]
    ELSE <<game>> \o games

\* pushPlayers(this.players) up to its first request: no team, or the local
\* copy and then the change queued when offline or signed out, or the delete
\* request sent
pushPlayers ==
    /\ pc = "idle"
    /\ push.pc = "idle"
    /\ pushCalls < MaxPushes
    /\ pushCalls' = pushCalls + 1
    /\ \E teamSelected, onLine, isAuthenticated \in BOOLEAN :
          IF ~teamSelected
          THEN /\ push' = Returned("players", players, cloudPlayers, "failed")
               /\ UNCHANGED <<localPlayers, syncQueue, queued>>
          ELSE /\ localPlayers' = players
               /\ IF ~onLine \/ ~isAuthenticated
                  THEN /\ Len(syncQueue) < MaxQueue
                       /\ syncQueue' = Append(syncQueue, queueChange("players", players))
                       /\ queued' = queued \cup {queueChange("players", players)}
                       /\ push' = Returned("players", players, cloudPlayers, "queued")
                  ELSE /\ push' = [pc |-> "deleting", entityType |-> "players",
                                   data |-> players, before |-> cloudPlayers,
                                   result |-> "none"]
                       /\ UNCHANGED <<syncQueue, queued>>
    /\ UNCHANGED <<nonSyncVars, cloudPlayers, localGames, cloudGames, queueRun, uploaded>>

\* deleteAllPlayers answers: the rows are gone, or the request failed, which
\* pushPlayers does not look at
pushPlayersDeleted ==
    /\ push.pc = "deleting"
    /\ \E success \in BOOLEAN : cloudPlayers' = IF success THEN <<>> ELSE cloudPlayers
    /\ push' = [push EXCEPT !.pc = "upserting"]
    /\ UNCHANGED <<nonSyncVars, syncQueue, localPlayers, localGames, cloudGames, queueRun,
                   queued, uploaded, pushCalls>>

\* bulkUpsertPlayers answers
pushPlayersUpserted ==
    /\ push.pc = "upserting"
    /\ \E success \in BOOLEAN :
          /\ cloudPlayers' = IF success THEN bulkUpsertPlayers(cloudPlayers, push.data)
                             ELSE cloudPlayers
          /\ push' = [push EXCEPT !.pc = "idle",
                                  !.result = IF success THEN "ok" ELSE "failed"]
    /\ UNCHANGED <<nonSyncVars, syncQueue, localPlayers, localGames, cloudGames, queueRun,
                   queued, uploaded, pushCalls>>

\* pushGame(game) up to its request
pushGame ==
    /\ pc = "idle"
    /\ push.pc = "idle"
    /\ pushCalls < MaxPushes
    /\ pushCalls' = pushCalls + 1
    /\ \E id \in GameIds, teamSelected, onLine, isAuthenticated \in BOOLEAN :
          LET game == [id |-> id, players |-> players]
          IN IF ~teamSelected
             THEN /\ push' = Returned("games", game, cloudPlayers, "failed")
                  /\ UNCHANGED <<localGames, syncQueue, queued>>
             ELSE /\ localGames' = withGame(localGames, game)
                  /\ IF ~onLine \/ ~isAuthenticated
                     THEN /\ Len(syncQueue) < MaxQueue
                          /\ syncQueue' = Append(syncQueue, queueChange("games", game))
                          /\ queued' = queued \cup {queueChange("games", game)}
                          /\ push' = Returned("games", game, cloudPlayers, "queued")
                     ELSE /\ push' = [pc |-> "saving", entityType |-> "games",
                                      data |-> game, before |-> cloudPlayers,
                                      result |-> "none"]
                          /\ UNCHANGED <<syncQueue, queued>>
    /\ UNCHANGED <<nonSyncVars, cloudPlayers, localPlayers, cloudGames, queueRun, uploaded>>

\* saveGame answers; on success the local game is replaced by the saved one
pushGameSaved ==
    /\ push.pc = "saving"
    /\ \E success \in BOOLEAN :
          /\ cloudGames' = IF success THEN cloudGames \cup {push.data} ELSE cloudGames
          /\ localGames' = IF success THEN withGame(localGames, push.data) ELSE localGames
          /\ push' = [push EXCEPT !.pc = "idle",
                                  !.result = IF success THEN "ok" ELSE "failed"]
    /\ UNCHANGED <<nonSyncVars, syncQueue, cloudPlayers, localPlayers, queueRun, queued,
                   uploaded, pushCalls>>

\* processQueue up to its first request: the queue read, nothing done when
\* it is empty, offline or signed out
processQueue ==
    /\ queueRun.pc = "idle"
    /\ syncQueue # <<>>
    /\ \E onLine, isAuthenticated \in BOOLEAN :
          queueRun' = IF ~onLine \/ ~isAuthenticated THEN queueRun
                      ELSE [pc |-> "uploading", items |-> syncQueue, remaining |-> <<>>]
    /\ UNCHANGED <<nonSyncVars, syncQueue, cloudPlayers, localPlayers, localGames,
                   cloudGames, push, queued, uploaded, pushCalls>>

\* the request for the next item of the queue read answers; a failed item
\* goes to remaining, and after the last item remaining is stored as the queue
processQueueItem ==
    /\ queueRun.pc = "uploading"
    /\ \E success \in BOOLEAN :
          LET item == Head(queueRun.items)
              rem  == IF success THEN queueRun.remaining
                      ELSE Append(queueRun.remaining, item)
              last == Len(queueRun.items) = 1
          IN /\ cloudPlayers' = IF success /\ item.entityType = "players"
                                THEN bulkUpsertPlayers(cloudPlayers, item.data)
                                ELSE cloudPlayers
             /\ cloudGames' = IF success /\ item.entityType = "games"
                              THEN cloudGames \cup {item.data} ELSE cloudGames
             /\ uploaded' = IF success THEN uploaded \cup {item} ELSE uploaded
             /\ queueRun' = IF last THEN [pc |-> "idle", items |-> <<>>, remaining |-> <<>>]
                            ELSE [queueRun EXCEPT !.items = Tail(@), !.remaining = rem]
             /\ syncQueue' = IF last THEN rem ELSE syncQueue
    /\ UNCHANGED <<nonSyncVars, localPlayers, localGames, push, queued, pushCalls>>

NextSync ==
    \/ addPlayer(Len(players) + 1, Null)
    \/ pushPlayers
    \/ pushPlayersDeleted
    \/ pushPlayersUpserted
    \/ pushGame
    \/ pushGameSaved
    \/ processQueue
    \/ processQueueItem

SpecSync == InitSettings /\ [][NextSync]_vars

\* the pushes alone, so that only they change the tables of the server
NextPush ==
    \/ addPlayer(Len(players) + 1, Null)
    \/ pushPlayers
    \/ pushPlayersDeleted
    \/ pushPlayersUpserted
    \/ pushGame
    \/ pushGameSaved

SpecPush == InitSettings /\ [][NextPush]_vars

\* C26: no operation sends roster data over the network: the players table
\* of the server never holds a row of the roster.
C26_NothingLeavesTheBrowser ==
    DOMAIN cloudPlayers = {}

---------------------------------------------------------------------------
(* The quarter search when every free quarter is next to a sitting quarter *)

\* the players for which the running pass calls findNonConsecutiveSittingQuarter
\* next
searchedNext ==
    IF pc = "sitMin" THEN {p \in nextInSecondPass : Len(sittingQuarters[p]) <= passI}
    ELSE IF pc = "sitExtra"
    THEN {p \in PlayerIds \ visited : Len(sittingQuarters[p]) < minSitsPerPlayer + 1}
    ELSE {}

\* the quarters that are not full and that the player does not sit yet
freeQuarters(p) == {q \in QuarterIds : QuarterFree(sittingQuarters[p], schedule, q)}

\* C27: when no quarter is free and away from the player's sitting quarters
\* but some quarter is free, the search gives the player a free quarter; the
\* adjacent sitting it makes is then for validateLineup to report.
C27_AdjacencyRelaxedLast ==
    \A p \in searchedNext :
        freeQuarters(p) # {} =>
            findNonConsecutiveSittingQuarter(sittingQuarters[p], schedule) \in freeQuarters(p)

---------------------------------------------------------------------------
(* The three outputs of generateLineup *)

\* the record of player i that the quarters of lineup l make, next to the
\* sitting quarters the player has
recordFrom(l, i) ==
    recordGame(ResetPlayer(players[i]), 1, Range(players[i].quartersSitting),
               [q \in quartersIn(l, i) |-> positionOf(l[q].positions, i)])

\* C28: when generateLineup returns, each player's accumulators are those the
\* returned lineup makes, and the returned violations are those of the
\* returned lineup.
C28_OutputsDescribeOneCandidate ==
    pc = "done" =>
        /\ players = [i \in PlayerIds |-> recordFrom(lineup, i)]
        /\ validation = validateLineup([i \in PlayerIds |-> recordFrom(lineup, i)])

---------------------------------------------------------------------------
(* Undo while a generation waits between two attempts *)

\* generateLineup is between its first attempt and its return
running ==
    \/ pc \in {"sitMin", "sitExtra", "quarters", "validate", "finish"}
    \/ pc = "attempt" /\ attempts >= 1

\* what undo and redo save and restore, and the two stacks
appState == [players |-> players, captains |-> captains, lineup |-> lineup,
             undoStack |-> undoStack, redoStack |-> redoStack]

currentState(s) == [players |-> s.players, captains |-> s.captains, lineup |-> s.lineup]

Front(stack) == SubSeq(stack, 1, Len(stack) - 1)

Last(stack) == stack[Len(stack)]

\* faulty alternative: the current state is not saved to the redo stack
undoneForgetting(s) ==
    IF s.undoStack = <<>> THEN s
    ELSE [players |-> Last(s.undoStack).players, captains |-> Last(s.undoStack).captains,
          lineup |-> Last(s.undoStack).lineup, undoStack |-> Front(s.undoStack),
          redoStack |-> s.redoStack]

\* the state after undo(): nothing on an empty undo stack
undone(s) ==
    IF s.undoStack = <<>> THEN s
    ELSE [players |-> Last(s.undoStack).players, captains |-> Last(s.undoStack).captains,
          lineup |-> Last(s.undoStack).lineup, undoStack |-> Front(s.undoStack),
          redoStack |-> Append(s.redoStack, currentState(s))]

\* the state after redo(): nothing on an empty redo stack
redone(s) ==
    IF s.redoStack = <<>> THEN s
    ELSE [players |-> Last(s.redoStack).players, captains |-> Last(s.redoStack).captains,
          lineup |-> Last(s.redoStack).lineup,
          undoStack |-> Append(s.undoStack, currentState(s)),
          redoStack |-> Front(s.redoStack)]

\* undo, from the keyboard: when no generation runs, or while generateLineup
\* awaits the delay between two attempts
undo ==
    /\ undoStack # <<>>
    /\ \/ pc \in {"idle", "done"}
       \/ pc = "attempt" /\ attempts >= 1
    /\ players' = undone(appState).players
    /\ captains' = undone(appState).captains
    /\ lineup' = undone(appState).lineup
    /\ undoStack' = undone(appState).undoStack
    /\ redoStack' = undone(appState).redoStack
    /\ UNCHANGED <<settingsVars, pc, searchVars, schedVars>>

\* redo, from the keyboard
redo ==
    /\ redoStack # <<>>
    /\ \/ pc \in {"idle", "done"}
       \/ pc = "attempt" /\ attempts >= 1
    /\ players' = redone(appState).players
    /\ captains' = redone(appState).captains
    /\ lineup' = redone(appState).lineup
    /\ undoStack' = redone(appState).undoStack
    /\ redoStack' = redone(appState).redoStack
    /\ UNCHANGED <<settingsVars, pc, searchVars, schedVars>>

\* three players, one of them made captain by a checkbox: the undo stack
\* holds the roster as it was before
InitUndo ==
    /\ positions = SmallFormation
    /\ playersOnField = Len(SmallFormation)
    /\ seasonStats = MakeSeason(3, {})
    /\ maxAttempts = MaxAttempts
    /\ \E playerName \in 1..3 :
          LET roster == MakeRoster(3, {}, {}, {}, "available")
              r == toggleCaptain(roster, <<>>, playerName, TRUE)
          IN /\ players = r.players
             /\ captains = r.captains
             /\ undoStack = <<[players |-> roster, captains |-> <<>>, lineup |-> <<>>]>>
             /\ redoStack = <<>>
    /\ InitApp

NextUndo ==
    \/ StartGeneration
    \/ BeginAttempt
    \/ generateQuarterLineup
    \/ EndAttempt
    \/ FinishGeneration
    \/ undo

SpecUndo == InitUndo /\ [][NextUndo]_vars

\* C29: from the first attempt of a generation until it returns, every step
\* that changes the players, the lineup, the captains or the positions is a
\* step of that generation.
C29_RunIsNotInterleaved ==
    [][(running /\ <<players, lineup, captains, positions>>' #
                      <<players, lineup, captains, positions>>)
          => \/ pc = "attempt" /\ attempts' = attempts + 1
             \/ pc = "quarters" /\ Len(lineup') = Len(lineup) + 1
             \/ pc = "finish" /\ pc' = "done"]_vars

---------------------------------------------------------------------------
(* The penalty for a position played earlier in the game *)

\* the players generateQuarterLineup can hand to assignPositionsOptimally for
\* the coming quarter
fieldPlayers == PlayerIds \ schedule[Len(lineup) + 1]

\* the players of R who have not played position pos in this game
freshFor(R, pos) == {p \in R : timesPlayedPosition(p, pos) = 0}

\* C30: whatever players remain when a position is filled, if one of them has
\* not played the position in this game then no player who has played it can
\* come first in the scores, jitter included.
C30_NoRepeatWhileAvoidable ==
    pc = "quarters" =>
        \A R \in SUBSET fieldPlayers, pos \in Range(positions) \ {"Keeper"} :
            freshFor(R, pos) # {} => topScored(R, pos) \subseteq freshFor(R, pos)

C30_Witness ==
    /\ pc = "quarters"
    /\ Len(lineup) = quarters - 1
    /\ \E pos \in Range(positions) \ {"Keeper"} :
          /\ freshFor(fieldPlayers, pos) # {}
          /\ \E p \in fieldPlayers :
                /\ timesPlayedPosition(p, pos) > 0
                /\ totalPositionsPlayed(p) > 0
                /\ \E q \in freshFor(fieldPlayers, pos) :
                      Abs(players[q].defensiveQuarters - players[q].offensiveQuarters) >= 2

---------------------------------------------------------------------------
(* The order of the scoring terms *)

\* C31: between two candidates for a position, the one with the better
\* no-repeat term always comes first; with equal no-repeat terms the one with
\* the better role-balance term always comes first; with both equal the one
\* with the better variety term always comes first.
C31_StrictPriorityOrder ==
    pc = "quarters" =>
        \A pos \in Range(positions) \ {"Keeper"}, p, q \in fieldPlayers :
            /\ repeatTerm(p, pos) > repeatTerm(q, pos) => q \notin topScored({p, q}, pos)
            /\ (/\ repeatTerm(p, pos) = repeatTerm(q, pos)
                /\ balanceTerm(p, pos) > balanceTerm(q, pos))
                   => q \notin topScored({p, q}, pos)
            /\ (/\ repeatTerm(p, pos) = repeatTerm(q, pos)
                /\ balanceTerm(p, pos) = balanceTerm(q, pos)
                /\ varietyTerm(p, pos) > varietyTerm(q, pos))
                   => q \notin topScored({p, q}, pos)

---------------------------------------------------------------------------
(* The role counters *)

\* how many of a player's positionsPlayed entries are 'Keeper' or contain 'Back'
defensiveEntries(pl) ==
    Cardinality({k \in 1..Len(pl.positionsPlayed) :
                    isDefensivePosition(pl.positionsPlayed[k].position)})

\* C32: after every generateQuarterLineup call of an attempt, for every player
\* defensiveQuarters + offensiveQuarters = |quartersPlayed| = |positionsPlayed|
\* and defensiveQuarters is the number of the player's positionsPlayed entries
\* that are 'Keeper' or contain 'Back'.
C32_RoleCountersMatchPositions ==
    (pc \in {"quarters", "validate"} /\ Len(lineup) >= 1) =>
        \A i \in PlayerIds :
            /\ players[i].defensiveQuarters + players[i].offensiveQuarters
                  = Len(players[i].quartersPlayed)
            /\ Len(players[i].quartersPlayed) = Len(players[i].positionsPlayed)
            /\ players[i].defensiveQuarters = defensiveEntries(players[i])

C32_Witness ==
    /\ pc = "validate"
    /\ attempts = 2
    /\ \E i \in PlayerIds :
          /\ players[i].goalieQuarter # 0
          /\ players[i].defensiveQuarters >= 2
          /\ players[i].offensiveQuarters >= 1
          /\ Len(players[i].quartersSitting) >= 1

---------------------------------------------------------------------------
(* The lineup worker: one 'generate' message in, progress and a result out *)

PROGRESS_EVERY == 50

MaxRequests == 2

\* data.maxAttempts of the 'generate' messages
WorkerBudgets == {1, 49, 50, 120}

\* the state of the page, which the worker does not share
pageVars == <<players, lineup, pc, searchVars, schedVars, captains, undoStack, redoStack,
              shuffleVars,
              playersOnField, positions, seasonStats, maxAttempts, ageDivision,
              formation, seasonGames, syncVars>>

Message(type, n, withLineup) == [type |-> type, attempts |-> n, lineup |-> withLineup]

\* self.onmessage takes a 'generate' message and enters generateLineup
receiveGenerate ==
    /\ workerPc \in {"idle", "done"}
    /\ workerRequests < MaxRequests
    /\ workerRequests' = workerRequests + 1
    /\ \E m \in WorkerBudgets : workerMaxAttempts' = m
    /\ workerAttempts' = 0
    /\ posted' = <<>>
    /\ workerPc' = "loop"
    /\ UNCHANGED pageVars

\* faulty alternative: a progress message after every attempt
workerAttemptPostingAlways ==
    /\ workerPc = "loop"
    /\ \/ /\ workerPc' = "done"
          /\ posted' = Append(posted, Message("error", workerAttempts, FALSE))
          /\ UNCHANGED workerAttempts
       \/ \E issues \in {0, 1} :
             /\ workerAttempts' = workerAttempts + 1
             /\ posted' = Append(posted, Message("progress", workerAttempts', FALSE))
             /\ workerPc' = IF issues > 0 /\ workerAttempts' < workerMaxAttempts
                            THEN "loop" ELSE "return"
    /\ UNCHANGED <<pageVars, workerMaxAttempts, workerRequests>>

\* one turn of the do-while loop of the worker's generateLineup: the attempt
\* throws, or it ends with or without issues
workerAttempt ==
    /\ workerPc = "loop"
    /\ \/ /\ workerPc' = "done"
          /\ posted' = Append(posted, Message("error", workerAttempts, FALSE))
          /\ UNCHANGED workerAttempts
       \/ \E issues \in {0, 1} :
             /\ workerAttempts' = workerAttempts + 1
             /\ posted' = IF workerAttempts' % PROGRESS_EVERY = 0
                          THEN Append(posted, Message("progress", workerAttempts', FALSE))
                          ELSE posted
             /\ workerPc' = IF issues > 0 /\ workerAttempts' < workerMaxAttempts
                            THEN "loop" ELSE "return"
    /\ UNCHANGED <<pageVars, workerMaxAttempts, workerRequests>>

\* after the loop: the lineup generated again on exhaustion, which can throw,
\* and the result posted
workerReturn ==
    /\ workerPc = "return"
    /\ workerPc' = "done"
    /\ \E type \in {"complete", "error"} :
          posted' = Append(posted, Message(type, workerAttempts, type = "complete"))
    /\ UNCHANGED <<pageVars, workerAttempts, workerMaxAttempts, workerRequests>>

NextWorker == receiveGenerate \/ workerAttempt \/ workerReturn

SpecWorker == InitSettings /\ [][NextWorker]_vars

isTerminal(m) == m.type \in {"complete", "error"}

\* C33: of the messages posted for a 'generate' message exactly one is
\* 'complete' or 'error' and it is the last; each one before it is a
\* 'progress' message without a lineup whose attempts value is a multiple of
\* 50, above that of the progress message before it and at most maxAttempts.
C33_OneTerminalMessageLast ==
    /\ \A k \in 1..Len(posted) :
          IF isTerminal(posted[k])
          THEN k = Len(posted) /\ workerPc = "done"
          ELSE /\ posted[k].type = "progress"
               /\ ~posted[k].lineup
               /\ posted[k].attempts % 50 = 0
               /\ posted[k].attempts <= workerMaxAttempts
               /\ k > 1 => posted[k].attempts > posted[k - 1].attempts
    /\ workerPc = "done" => (Len(posted) >= 1 /\ isTerminal(posted[Len(posted)]))

C33_Witness ==
    /\ workerPc = "done"
    /\ workerRequests = 2
    /\ Len(posted) = 3
    /\ posted[3].type = "complete"
    /\ posted[2].attempts = 100

---------------------------------------------------------------------------
(* The offline queue and the pushes *)

\* C34: once no processQueue run is under way, every change queueChange has
\* appended was uploaded by a processQueue run or is in the queue.
C34_NoQueuedChangeLost ==
    queueRun.pc = "idle" => queued \subseteq (uploaded \cup Range(syncQueue))

\* C35: when pushPlayers returns success = false the players table of the
\* server is what it was when the call began.
C35_FailedPushLeavesCloudRoster ==
    [][(/\ push'.pc = "idle"
        /\ pushCalls' = pushCalls + 1 \/ push.pc = "upserting"
        /\ push'.entityType = "players"
        /\ push'.result = "failed") => cloudPlayers' = push'.before]_vars

\* C36: every pushPlayers and pushGame call writes its data to local storage,
\* whatever it returns, and no request of the call is under way before that.
C36_LocalCopyFirst ==
    /\ [](/\ push.pc \in {"deleting", "upserting"} => localPlayers = push.data
          /\ push.pc = "saving" => push.data \in Range(localGames))
    /\ [][pushCalls' = pushCalls + 1 =>
             /\ push'.entityType = "players" => localPlayers' = push'.data
             /\ push'.entityType = "games" => push'.data \in Range(localGames')]_vars

---------------------------------------------------------------------------
(* Undo and redo *)

\* the captain checkboxes, undo and redo on a roster of three
NextUndoRedo == toggleCaptainByName \/ undo \/ redo

SpecUndoRedo == InitReject /\ [][NextUndoRedo]_vars

\* C37, as stated: in every state undo() followed by redo() leaves the
\* players, the captains and the lineup as they are, and so does redo()
\* followed by undo().
C37_UndoRedoRoundTrip ==
    /\ currentState(redone(undone(appState))) = currentState(appState)
    /\ currentState(undone(redone(appState))) = currentState(appState)

\* C37: when the undo stack is not empty, undo() followed by redo() leaves the
\* players, the captains and the lineup as they are; when the redo stack is
\* not empty, so does redo() followed by undo().
C37_RoundTripOfAnActingCall ==
    /\ undoStack # <<>> =>
          currentState(redone(undone(appState))) = currentState(appState)
    /\ redoStack # <<>> =>
          currentState(undone(redone(appState))) = currentState(appState)

C37_Witness ==
    /\ undoStack # <<>>
    /\ redoStack # <<>>
    /\ currentState(undone(appState)) # currentState(appState)
    /\ currentState(redone(appState)) # currentState(appState)
    /\ currentState(redone(appState)) # currentState(undone(appState))

\* C38: the undo stack never holds more than its maximal size, and every
\* step that saves a state for undo leaves the redo stack empty.
C38_UndoStackBounded ==
    /\ [](Len(undoStack) <= MaxUndoStack)
    /\ [][toggleCaptainByName => redoStack' = <<>>]_vars

C38_Witness ==
    /\ Len(undoStack) = MaxUndoStack
    /\ undoStack[1].captains # <<>>
    /\ redoStack = <<>>
    /\ Len(captains) = MAX_CAPTAINS

---------------------------------------------------------------------------
(* The roster: names, jersey numbers and size *)

\* removePlayer(name)
removePlayer(name) ==
    /\ pc = "idle"
    /\ undoStack' = saveStateForUndo
    /\ redoStack' = <<>>
    /\ captains' = Without(captains, name)
    /\ players' = SelectSeq(players, LAMBDA p : p.name # name)
    /\ UNCHANGED <<settingsVars, lineup, pc, searchVars, schedVars>>

\* updatePlayerNumber(playerIndex, value): refused when another player has
\* the number
updatePlayerNumber(playerIndex, number) ==
    /\ pc = "idle"
    /\ players' = IF number # Null /\ \E idx \in PlayerIds \ {playerIndex} :
                                         players[idx].number = number
                  THEN players
                  ELSE [players EXCEPT ![playerIndex].number = number]
    /\ UNCHANGED <<configVars, lineup, pc, searchVars, schedVars, captains>>

\* the names typed: the next name not yet used when nobody was removed, the
\* first name with and without its capital, an empty and a long one
NameInputs == {Len(players) + 1, 1, MaxRoster + 1, EmptyName, LongName}

NumberInputs == {Null, 7}

NextRoster ==
    \/ \E name \in NameInputs, number \in NumberInputs : addPlayer(name, number)
    \/ \E i \in PlayerIds : removePlayer(players[i].name)
    \/ \E i \in PlayerIds, number \in NumberInputs : updatePlayerNumber(i, number)
    \/ undo
    \/ redo

SpecRoster == InitSettings /\ [][NextRoster]_vars

\* C39: names are pairwise distinct, jersey numbers that are not null are
\* pairwise distinct, the roster is not over its maximal size, and an
\* addPlayer call that is refused leaves the roster and the undo stack alone.
C39_RosterIdentities ==
    /\ \A i, j \in PlayerIds :
          i # j => /\ players[i].name # players[j].name
                   /\ players[i].number = Null \/ players[i].number # players[j].number
    /\ Len(players) <= MaxRoster
    /\ \A name \in NameInputs, number \in NumberInputs :
          ~addPlayerOutcome(name, number).accepted
             => /\ addPlayerOutcome(name, number).players = players
                /\ addPlayerOutcome(name, number).undoStack = undoStack

C39_Witness ==
    /\ Len(players) = MaxRoster
    /\ redoStack # <<>>
    /\ \E i \in PlayerIds : players[i].number = 7
    /\ \E i \in PlayerIds : players[i].name = MaxRoster + 1

---------------------------------------------------------------------------
(* shuffleWithinSimilarGroups, step by step; indices count from 0 as in the  *)
(* code, so array[i] of the code is array[i + 1] here                       *)

MaxLen == 4

GroupValues == {1, 2}

\* the arrays a call receives: elements told apart by name, any group values
ShuffleInputs ==
    UNION {{[n \in 1..len |-> [name |-> n, value |-> g[n]]] : g \in [1..len -> GroupValues]} :
           len \in 0..MaxLen}

getGroupValue(x) == x.value

\* everything but the shuffle call
nonShuffleVars == <<players, lineup, pc, searchVars, schedVars, captains, undoStack,
                    redoStack, playersOnField, positions, seasonStats, maxAttempts,
                    ageDivision, formation, seasonGames, syncVars, workerVars>>

Swap(a, m, n) == [a EXCEPT ![m + 1] = a[n + 1], ![n + 1] = a[m + 1]]

\* the call: an array of at most one element is returned at once
callShuffle ==
    /\ shuffle.pc \in {"idle", "returned"}
    /\ \E a \in ShuffleInputs :
          /\ shuffleInput' = a
          /\ shuffle' = [pc |-> IF Len(a) <= 1 THEN "returned" ELSE "group",
                         array |-> a, i |-> 0, j |-> 0, k |-> 0]
    /\ UNCHANGED nonShuffleVars

\* the index after the run of equal group values that starts at i
endOfGroup(a, i) ==
    CHOOSE j \in (i + 1)..Len(a) :
        /\ \A m \in i..(j - 1) : getGroupValue(a[m + 1]) = getGroupValue(a[i + 1])
        /\ j < Len(a) => getGroupValue(a[j + 1]) # getGroupValue(a[i + 1])

\* one turn of the outer loop up to the shuffle of the group
shuffleGroup ==
    /\ shuffle.pc = "group"
    /\ IF shuffle.i >= Len(shuffle.array)
       THEN shuffle' = [shuffle EXCEPT !.pc = "returned"]
       ELSE LET j == endOfGroup(shuffle.array, shuffle.i)
            IN shuffle' = IF j - shuffle.i > 1
                          THEN [shuffle EXCEPT !.pc = "swap", !.j = j, !.k = j - 1]
                          ELSE [shuffle EXCEPT !.i = j, !.j = j]
    /\ UNCHANGED <<nonShuffleVars, shuffleInput>>

\* faulty alternative: randomIndex is drawn from the start of the array
shuffleSwapFromStart ==
    /\ shuffle.pc = "swap"
    /\ \E randomIndex \in 0..shuffle.k :
          LET a == Swap(shuffle.array, shuffle.k, randomIndex)
          IN shuffle' = IF shuffle.k - 1 > shuffle.i
                        THEN [shuffle EXCEPT !.array = a, !.k = @ - 1]
                        ELSE [shuffle EXCEPT !.array = a, !.k = @ - 1, !.i = shuffle.j,
                                             !.pc = "group"]
    /\ UNCHANGED <<nonShuffleVars, shuffleInput>>

\* one turn of the inner loop: array[k] swapped with array[randomIndex],
\* i <= randomIndex <= k
shuffleSwap ==
    /\ shuffle.pc = "swap"
    /\ \E randomIndex \in shuffle.i..shuffle.k :
          LET a == Swap(shuffle.array, shuffle.k, randomIndex)
          IN shuffle' = IF shuffle.k - 1 > shuffle.i
                        THEN [shuffle EXCEPT !.array = a, !.k = @ - 1]
                        ELSE [shuffle EXCEPT !.array = a, !.k = @ - 1, !.i = shuffle.j,
                                             !.pc = "group"]
    /\ UNCHANGED <<nonShuffleVars, shuffleInput>>

NextShuffle == callShuffle \/ shuffleGroup \/ shuffleSwap

SpecShuffle == InitSettings /\ [][NextShuffle]_vars

\* the indices of the maximal run of equal group values around index n of a
runOf(a, n) ==
    {m \in 1..Len(a) :
        \A x \in (IF m < n THEN m..n ELSE n..m) : getGroupValue(a[x]) = getGroupValue(a[n])}

\* C40: the array shuffleWithinSimilarGroups returns is a permutation of the
\* one it received, with the same group value at every index and every element
\* inside the maximal run of equal group values it started in.
C40_ShuffleStaysInGroups ==
    shuffle.pc = "returned" =>
        /\ Len(shuffle.array) = Len(shuffleInput)
        /\ \A n \in 1..Len(shuffleInput) :
              /\ getGroupValue(shuffle.array[n]) = getGroupValue(shuffleInput[n])
              /\ \E m \in runOf(shuffleInput, n) : shuffle.array[m] = shuffleInput[n]
              /\ \E m \in runOf(shuffleInput, n) : shuffle.array[n] = shuffleInput[m]

C40_Witness ==
    /\ shuffle.pc = "returned"
    /\ Len(shuffleInput) = MaxLen
    /\ getGroupValue(shuffleInput[1]) # getGroupValue(shuffleInput[3])
    /\ shuffle.array[1] = shuffleInput[2]
    /\ shuffle.array[3] = shuffleInput[4]

=============================================================================
